---- MODULE Spec2Model ----
(***************************************************************************)
(* Model of the mochow Rust SDK client: credentials, client configuration, *)
(* client construction, the per-operation request/response cycle with the  *)
(* retry middleware, and the classification of failures into SdkError.     *)
(*                                                                         *)
(* Strings are sequences of one-character strings, so that prefix tests    *)
(* and concatenations are computed as the code computes them.              *)
(***************************************************************************)
EXTENDS Integers, Sequences, FiniteSets, TLC

(***************************************************************************)
(* Bounds of the model.                                                    *)
(***************************************************************************)
\* longest account / api_key / host part of an endpoint the caller supplies
MaxLen == 1
\* largest error code drawn in the lookup specification (the table ends at 101)
MaxCode == 103
\* largest max_retries a configuration of the call specification carries
MaxRetries == 2
\* most fields, and most indexes, of a TableSchema written and read back
MaxSchemaLen == 2
MaxPieces == 2
\* most truncated pages the service returns for one select
MaxPages == 2
\* the batch size the documentation of InsertRowArgs gives as the maximum
DocumentedMaxRows == 1000
\* the sizes of the batches given to insert_row
BatchSizes == {0, 1, 2, DocumentedMaxRows, DocumentedMaxRows + 1}

(***************************************************************************)
(* Strings.                                                                *)
(***************************************************************************)
SeqsUpTo(S, n) == UNION { [1..k -> S] : k \in 0..n }

\* str::starts_with
StartsWith(s, p) == Len(s) >= Len(p) /\ SubSeq(s, 1, Len(p)) = p

\* str::is_empty
IsEmpty(s) == Len(s) = 0

SchemeHttp == <<"h", "t", "t", "p", ":", "/", "/">>
SchemeHttps == <<"h", "t", "t", "p", "s", ":", "/", "/">>

(***************************************************************************)
(* SdkError (error.rs) and Result values.                                  *)
(***************************************************************************)
Ok(v) == [ok |-> TRUE, val |-> v]
Err(e) == [ok |-> FALSE, err |-> e]

ParamsError(m) == [kind |-> "ParamsError", msg |-> m]
OtherError(m) == [kind |-> "OtherError", msg |-> m]
RequestMiddlewareError(m) == [kind |-> "RequestMiddlewareError", msg |-> m]

\* variant: a reqwest::Error kept as a request error
FromReqwestErrorMutant(e) == [kind |-> "RequestError", msg |-> e]

\* impl From<reqwest::Error> for SdkError
FromReqwestError(e) == OtherError(e)

\* variant: a middleware error is wrapped like a reqwest error
FromMiddlewareErrorMutant(e) == OtherError(e)

\* impl From<reqwest_middleware::Error> for SdkError
FromMiddlewareError(e) == RequestMiddlewareError(e)

\* impl From<...BuilderError> for SdkError (one impl per builder, all alike)
FromBuilderError(e) == OtherError(e)

(***************************************************************************)
(* Credentials (auth/credentials.rs).                                      *)
(***************************************************************************)
TokenAccount == <<"a", "c", "c", "o", "u", "n", "t", "=">>
TokenApiKey == <<"&", "a", "p", "i", "_", "k", "e", "y", "=">>

\* variant: rejects only when both strings are empty
CredentialsNewMutant(account, api_key) ==
    IF IsEmpty(account) /\ IsEmpty(api_key)
    THEN Err(ParamsError("account should not be empty"))
    ELSE Ok([account |-> account, api_key |-> api_key,
             token |-> TokenAccount \o account \o TokenApiKey \o api_key])

\* Credentials::new
CredentialsNew(account, api_key) ==
    IF IsEmpty(account)
    THEN Err(ParamsError("account should not be empty"))
    ELSE IF IsEmpty(api_key)
    THEN Err(ParamsError("api_key should not be empty"))
    ELSE Ok([account |-> account, api_key |-> api_key,
             token |-> TokenAccount \o account \o TokenApiKey \o api_key])

(***************************************************************************)
(* ServerErrorCode (mochow/api/enums.rs).                                  *)
(***************************************************************************)
\* the enum declaration: each variant with its discriminant
ServerErrorCode ==
    [ UNKNOWN |-> 0,
      INTERNAL_ERROR |-> 1, INVALID_PARAMETER |-> 2,
      INVALID_HTTP_URL |-> 10, INVALID_HTTP_HEADER |-> 11,
      INVALID_HTTP_BODY |-> 12, MISS_SSL_CERTIFICATES |-> 13,
      USER_NOT_EXIST |-> 20, USER_ALREADY_EXIST |-> 21,
      ROLE_NOT_EXIST |-> 22, ROLE_ALREADY_EXIST |-> 23,
      AUTHENTICATION_FAILED |-> 24, PERMISSION_DENIED |-> 25,
      DB_NOT_EXIST |-> 50, DB_ALREADY_EXIST |-> 51,
      DB_TOO_MANY_TABLES |-> 52, DB_NOT_EMPTY |-> 53,
      INVALID_TABLE_SCHEMA |-> 60, INVALID_PARTITION_PARAMETERS |-> 61,
      TABLE_TOO_MANY_FIELDS |-> 62, TABLE_TOO_MANY_FAMILIES |-> 63,
      TABLE_TOO_MANY_PRIMARY_KEYS |-> 64,
      TABLE_TOO_MANY_PARTITION_KEYS |-> 65,
      TABLE_TOO_MANY_VECTOR_FIELDS |-> 66, TABLE_TOO_MANY_INDEXES |-> 67,
      DYNAMIC_SCHEMA_ERROR |-> 68, TABLE_NOT_EXIST |-> 69,
      TABLE_ALREADY_EXIST |-> 70, INVALID_TABLE_STATE |-> 71,
      TABLE_NOT_READY |-> 72, ALIAS_NOT_EXIST |-> 73,
      ALIAS_ALREADY_EXIST |-> 74,
      FIELD_NOT_EXIST |-> 80, FIELD_ALREADY_EXIST |-> 81,
      VECTOR_FIELD_NOT_EXIST |-> 82,
      INVALID_INDEX_SCHEMA |-> 90, INDEX_NOT_EXIST |-> 91,
      INDEX_ALREADY_EXIST |-> 92, INDEX_DUPLICATED |-> 93,
      INVALID_INDEX_STATE |-> 94,
      PRIMARY_KEY_DUPLICATED |-> 100, ROW_KEY_NOT_FOUND |-> 101 ]

\* variant: arms missing, and the arms of 100 and 101 exchanged
ServerErrorCodeFromMutant(value) ==
    CASE value = 1 -> "INTERNAL_ERROR"
      [] value = 2 -> "INVALID_PARAMETER"
      [] value = 51 -> "DB_ALREADY_EXIST"
      [] value = 100 -> "ROW_KEY_NOT_FOUND"
      [] value = 101 -> "PRIMARY_KEY_DUPLICATED"
      [] OTHER -> "UNKNOWN"

\* impl From<i32> for ServerErrorCode: the match, arm by arm
ServerErrorCodeFrom(value) ==
    CASE value = 1 -> "INTERNAL_ERROR"
      [] value = 2 -> "INVALID_PARAMETER"
      [] value = 10 -> "INVALID_HTTP_URL"
      [] value = 11 -> "INVALID_HTTP_HEADER"
      [] value = 12 -> "INVALID_HTTP_BODY"
      [] value = 13 -> "MISS_SSL_CERTIFICATES"
      [] value = 20 -> "USER_NOT_EXIST"
      [] value = 21 -> "USER_ALREADY_EXIST"
      [] value = 22 -> "ROLE_NOT_EXIST"
      [] value = 23 -> "ROLE_ALREADY_EXIST"
      [] value = 24 -> "AUTHENTICATION_FAILED"
      [] value = 25 -> "PERMISSION_DENIED"
      [] value = 50 -> "DB_NOT_EXIST"
      [] value = 51 -> "DB_ALREADY_EXIST"
      [] value = 52 -> "DB_TOO_MANY_TABLES"
      [] value = 53 -> "DB_NOT_EMPTY"
      [] value = 60 -> "INVALID_TABLE_SCHEMA"
      [] value = 61 -> "INVALID_PARTITION_PARAMETERS"
      [] value = 62 -> "TABLE_TOO_MANY_FIELDS"
      [] value = 63 -> "TABLE_TOO_MANY_FAMILIES"
      [] value = 64 -> "TABLE_TOO_MANY_PRIMARY_KEYS"
      [] value = 65 -> "TABLE_TOO_MANY_PARTITION_KEYS"
      [] value = 66 -> "TABLE_TOO_MANY_VECTOR_FIELDS"
      [] value = 67 -> "TABLE_TOO_MANY_INDEXES"
      [] value = 68 -> "DYNAMIC_SCHEMA_ERROR"
      [] value = 69 -> "TABLE_NOT_EXIST"
      [] value = 70 -> "TABLE_ALREADY_EXIST"
      [] value = 71 -> "INVALID_TABLE_STATE"
      [] value = 72 -> "TABLE_NOT_READY"
      [] value = 73 -> "ALIAS_NOT_EXIST"
      [] value = 74 -> "ALIAS_ALREADY_EXIST"
      [] value = 80 -> "FIELD_NOT_EXIST"
      [] value = 81 -> "FIELD_ALREADY_EXIST"
      [] value = 82 -> "VECTOR_FIELD_NOT_EXIST"
      [] value = 90 -> "INVALID_INDEX_SCHEMA"
      [] value = 91 -> "INDEX_NOT_EXIST"
      [] value = 92 -> "INDEX_ALREADY_EXIST"
      [] value = 93 -> "INDEX_DUPLICATED"
      [] value = 94 -> "INVALID_INDEX_STATE"
      [] value = 100 -> "PRIMARY_KEY_DUPLICATED"
      [] value = 101 -> "ROW_KEY_NOT_FOUND"
      [] OTHER -> "UNKNOWN"

(***************************************************************************)
(* ClientConfiguration (mochow/config.rs).                                 *)
(***************************************************************************)
\* a builder field that has not been set / that has been set to v
Unset == [set |-> FALSE]
Set(v) == [set |-> TRUE, v |-> v]

DefaultTimeOutSeconds == 30
DefaultMaxRetries == 3
Version == <<"v", "1">>

\* derive_builder's error for a required field left unset
UninitializedField(name) == <<"UninitializedField", name>>

\* variant: endpoint has a default, the empty string
ClientConfigurationBuildMutant(b) ==
    IF ~b.account.set THEN Err(UninitializedField("account"))
    ELSE IF ~b.api_key.set THEN Err(UninitializedField("api_key"))
    ELSE Ok([account |-> b.account.v,
             api_key |-> b.api_key.v,
             endpoint |-> IF b.endpoint.set THEN b.endpoint.v ELSE <<>>,
             version |-> Version,
             time_out_seconds |-> IF b.time_out_seconds.set
                                  THEN b.time_out_seconds.v
                                  ELSE DefaultTimeOutSeconds,
             max_retries |-> IF b.max_retries.set
                             THEN b.max_retries.v ELSE DefaultMaxRetries,
             user_agent |-> IF b.user_agent.set THEN b.user_agent.v ELSE <<>>])

\* ClientConfigurationBuilder::build, as derived from the struct's attributes:
\* account, api_key and endpoint are required; version is fixed (setter skipped)
ClientConfigurationBuild(b) ==
    IF ~b.account.set THEN Err(UninitializedField("account"))
    ELSE IF ~b.api_key.set THEN Err(UninitializedField("api_key"))
    ELSE IF ~b.endpoint.set THEN Err(UninitializedField("endpoint"))
    ELSE Ok([account |-> b.account.v,
             api_key |-> b.api_key.v,
             endpoint |-> b.endpoint.v,
             version |-> Version,
             time_out_seconds |-> IF b.time_out_seconds.set
                                  THEN b.time_out_seconds.v
                                  ELSE DefaultTimeOutSeconds,
             max_retries |-> IF b.max_retries.set
                             THEN b.max_retries.v ELSE DefaultMaxRetries,
             user_agent |-> IF b.user_agent.set THEN b.user_agent.v ELSE <<>>])

\* the `?` that turns a Result<_, XBuilderError> into a Result<_, SdkError>
Try(res) == IF res.ok THEN res ELSE Err(FromBuilderError(res.err))

(***************************************************************************)
(* Args builders (mochow/api/database.rs, table.rs), each derived from its *)
(* struct: a field without a default is required, and build() fails on the *)
(* first such field left unset, in declaration order.                      *)
(***************************************************************************)
RECURSIVE FirstUnset(_, _)
FirstUnset(required, b) ==
    IF required = <<>> THEN Unset
    ELSE IF ~b[Head(required)].set THEN Set(Head(required))
    ELSE FirstUnset(Tail(required), b)

DeriveBuild(required, b) ==
    LET missing == FirstUnset(required, b)
    IN  IF missing.set
        THEN Err(UninitializedField(missing.v))
        ELSE Ok([f \in DOMAIN b |-> b[f].v])

\* build() of a struct whose fields in options are Option<_> fields with
\* builder(default, setter(strip_option)): unset they are None, set they are
\* Some of the value given
DeriveBuildOptions(required, options, b) ==
    LET missing == FirstUnset(required, b)
    IN  IF missing.set
        THEN Err(UninitializedField(missing.v))
        ELSE Ok([f \in DOMAIN b |-> IF f \in options THEN b[f] ELSE b[f].v])

\* CreateTableArgsBuilder::build: database, table, description and
\* replication have no builder default and are required; partition and schema
\* default to Default::default(), enable_dynamic_field to Some(false)
CreateTableArgsBuild(b) ==
    LET missing == FirstUnset(<<"database", "table", "description", "replication">>, b)
    IN  IF missing.set
        THEN Err(UninitializedField(missing.v))
        ELSE Ok([database |-> b.database.v,
                 table |-> b.table.v,
                 description |-> b.description,
                 replication |-> b.replication.v,
                 partition |-> IF b.partition.set THEN b.partition.v
                               ELSE [partition_type |-> "HASH", partition_num |-> 0],
                 enable_dynamic_field |->
                     IF b.enable_dynamic_field.set THEN b.enable_dynamic_field
                     ELSE Set(FALSE),
                 schema |-> IF b.schema.set THEN b.schema.v
                            ELSE [fields |-> <<>>, indexes |-> <<>>]])

\* SelectRowsArgsBuilder::build: database and table are required
SelectRowsArgsBuild(b) ==
    DeriveBuildOptions(<<"database", "table">>,
                       {"filter", "marker", "limit", "projections", "read_consistency"},
                       b)

\* CreateDatabaseArgsBuilder::build: database is required
CreateDatabaseArgsBuild(b) == DeriveBuild(<<"database">>, b)

\* ListDatabaseArgsBuilder::build: the struct has no field
ListDatabaseArgsBuild(b) == DeriveBuild(<<>>, b)

\* ListTableArgsBuilder::build: database is required
ListTableArgsBuild(b) == DeriveBuild(<<"database">>, b)

\* DescriptTableArgsBuilder::build: database and table are required
DescriptTableArgsBuild(b) == DeriveBuild(<<"database", "table">>, b)

\* DropDatabaseArgsBuilder::build: database is required
DropDatabaseArgsBuild(b) == DeriveBuild(<<"database">>, b)

\* DropTableArgsBuilder::build, StatsTableArgsBuilder::build: database and
\* table are required
TableArgsBuild(b) == DeriveBuild(<<"database", "table">>, b)

\* DescriptIndexArgsBuilder::build, RebuildIndexArgsBuilder::build,
\* DeleteIndexArgsBuilder::build: database, table and index_name are required
IndexArgsBuild(b) == DeriveBuild(<<"database", "table", "index_name">>, b)

(***************************************************************************)
(* MochowClient construction (mochow/client.rs).                           *)
(***************************************************************************)
\* variant: only "http://" counts as a scheme
NormalizeEndpointMutant(endpoint) ==
    IF StartsWith(endpoint, SchemeHttp) THEN endpoint ELSE SchemeHttp \o endpoint

\* the endpoint normalisation of new_with_configuration
NormalizeEndpoint(endpoint) ==
    IF StartsWith(endpoint, SchemeHttp) \/ StartsWith(endpoint, SchemeHttps)
    THEN endpoint
    ELSE SchemeHttp \o endpoint

\* MochowClient::_http_client: the retry policy is built from max_retries
HttpClient(config) == [max_n_retries |-> config.max_retries]

\* MochowClient::new_with_configuration
NewWithConfiguration(config) ==
    IF IsEmpty(config.account) \/ IsEmpty(config.api_key) \/ IsEmpty(config.endpoint)
    THEN Err(ParamsError("account, apiKey and endpoint missing for creating mochow client"))
    ELSE LET auth == CredentialsNew(config.account, config.api_key)
         IN  IF ~auth.ok THEN auth
             ELSE Ok([credential |-> auth.val,
                      http_client |-> HttpClient(config),
                      configuration |->
                          [config EXCEPT !.endpoint = NormalizeEndpoint(@)]])

\* MochowClient::new
MochowClientNew(account, api_key, endpoint) ==
    LET built == Try(ClientConfigurationBuild(
                        [account |-> Set(account), api_key |-> Set(api_key),
                         endpoint |-> Set(endpoint), time_out_seconds |-> Unset,
                         max_retries |-> Unset, user_agent |-> Unset]))
    IN  IF ~built.ok THEN built ELSE NewWithConfiguration(built.val)

(***************************************************************************)
(* HTTP exchange: statuses, headers, bodies.                               *)
(***************************************************************************)
\* StatusCode::is_client_error, is_server_error
IsClientError(status) == status >= 400 /\ status < 500
IsServerError(status) == status >= 500 /\ status < 600

\* HeaderValue::to_str: the bytes as text when every byte is visible ASCII
IsVisibleAscii(b) == (b >= 32 /\ b < 127) \/ b = 9
ToStr(bytes) ==
    IF \A i \in 1..Len(bytes) : IsVisibleAscii(bytes[i])
    THEN Ok(bytes) ELSE Err("ToStrError")

NoHeader == [present |-> FALSE]
Header(bytes) == [present |-> TRUE, bytes |-> bytes]

\* variant: the header's bytes taken without to_str
RequestIdMutant(header) ==
    IF header.present THEN header.bytes ELSE <<>>

\* send_and_log: the request id taken from the Request-ID header
RequestId(header) ==
    IF header.present
    THEN LET s == ToStr(header.bytes) IN IF s.ok THEN s.val ELSE <<>>
    ELSE <<>>

\* Response::json::<CommonResponse>: code and msg are required, other keys
\* are ignored; a body whose transfer the timeout cuts is an error as well
JsonCommonResponse(body) ==
    CASE body.kind = "json" -> Ok([code |-> body.code, msg |-> body.msg])
      [] body.kind = "invalid" -> Err("decode")
      [] body.kind = "timeout" -> Err("timeout")

\* the response type each operation decodes, and whether that type has a
\* required field besides code and msg
ResponseType(o) ==
    CASE o \in {"create_database", "drop_database", "create_table", "drop_table",
                "add_field", "alias_table", "unalias_table", "create_index",
                "modify_index", "rebuild_index", "delete_index", "update_row",
                "delete_rows"} -> "CommonResponse"
      [] o \in {"list_database", "hash_database"} -> "ListDatabaseResponse"
      [] o \in {"list_table", "has_table"} -> "ListTableResponse"
      [] o = "desc_table" -> "DescriptTableResponse"
      [] o = "show_table_stats" -> "StatsTableResponse"
      [] o = "desc_index" -> "DescriptIndexResponse"
      [] o = "insert_row" -> "InsertRowsResponse"
      [] o = "upsert_row" -> "UpsertRowsResponse"
      [] o = "query_row" -> "QueryRowsResponse"
      [] o = "search_rows" -> "SearchRowsResponse"
      [] o = "select_rows" -> "SelectRowsResponse"
      [] o = "batch_search_rows" -> "BatchSearchRowsResponse"

PayloadRequired(type) ==
    type \in {"DescriptTableResponse", "StatsTableResponse", "DescriptIndexResponse",
              "InsertRowsResponse", "UpsertRowsResponse", "QueryRowsResponse",
              "SearchRowsResponse", "SelectRowsResponse", "BatchSearchRowsResponse"}

\* the types whose payload is a list of names with serde(default): databases
\* of ListDatabaseResponse, tables of ListTableResponse
ListTypes == {"ListDatabaseResponse", "ListTableResponse"}

\* variant: next_marker is left out of what is decoded
JsonSelectRowsResponseMutant(body) ==
    IF ~body.payload \/ ~body.page.is_truncated.set \/ ~body.page.next_marker.set
    THEN Err("decode")
    ELSE Ok([type |-> "SelectRowsResponse", code |-> body.code, msg |-> body.msg,
             payload |-> TRUE, names |-> <<>>,
             is_truncated |-> body.page.is_truncated.v,
             next_marker |-> [j |-> "null"]])

\* Response::json::<SelectRowsResponse<T>>: rows, isTruncated and nextMarker
\* are required (a null nextMarker is a value, an absent one is not)
JsonSelectRowsResponse(body) ==
    IF ~body.payload \/ ~body.page.is_truncated.set \/ ~body.page.next_marker.set
    THEN Err("decode")
    ELSE Ok([type |-> "SelectRowsResponse", code |-> body.code, msg |-> body.msg,
             payload |-> TRUE, names |-> <<>>,
             is_truncated |-> body.page.is_truncated.v,
             next_marker |-> body.page.next_marker.v])

\* variant: a body whose code is not 0 is refused
JsonAsMutant(type, body) ==
    CASE body.kind = "json" ->
            IF body.code # 0 THEN Err("code")
            ELSE IF type = "SelectRowsResponse" THEN JsonSelectRowsResponse(body)
            ELSE IF PayloadRequired(type) /\ ~body.payload
            THEN Err("decode")
            ELSE Ok([type |-> type, code |-> body.code, msg |-> body.msg,
                     payload |-> type # "CommonResponse" /\ body.payload,
                     names |-> IF type \in ListTypes /\ body.payload
                               THEN body.names ELSE <<>>])
      [] body.kind = "invalid" -> Err("decode")
      [] body.kind = "timeout" -> Err("timeout")

\* Response::json::<T> for the operation's response type T
JsonAs(type, body) ==
    CASE body.kind = "json" ->
            IF type = "SelectRowsResponse" THEN JsonSelectRowsResponse(body)
            ELSE IF PayloadRequired(type) /\ ~body.payload
            THEN Err("decode")
            ELSE Ok([type |-> type, code |-> body.code, msg |-> body.msg,
                     payload |-> type # "CommonResponse" /\ body.payload,
                     names |-> IF type \in ListTypes /\ body.payload
                               THEN body.names ELSE <<>>])
      [] body.kind = "invalid" -> Err("decode")
      [] body.kind = "timeout" -> Err("timeout")

\* variant: the fallback envelope carries code 0
DecodeFailedMutant(e) ==
    [code |-> 0, msg |-> <<"Service json error message decode failed", e>>]

\* send_and_log: the envelope used when the error body cannot be decoded
DecodeFailed(e) ==
    [code |-> -1, msg |-> <<"Service json error message decode failed", e>>]

\* send_and_log: the ServiceError built from a 4xx/5xx response
ServiceErrorOf(res) ==
    LET service_msg == JsonCommonResponse(res.body)
        msg == IF service_msg.ok THEN service_msg.val
               ELSE DecodeFailed(service_msg.err)
    IN  [kind |-> "ServiceError",
         status_code |-> res.status,
         request_id |-> RequestId(res.request_id),
         server_code |-> ServerErrorCodeFrom(msg.code),
         resp |-> msg]

\* variant: every status outside 2xx is an error status
IsErrorStatusMutant(status) == status < 200 \/ status >= 300

\* send_and_log: the statuses it turns into a ServiceError
IsErrorStatus(status) == IsClientError(status) \/ IsServerError(status)

(***************************************************************************)
(* The retry middleware installed by MochowClient::_http_client:           *)
(* RetryTransientMiddleware with an ExponentialBackoff policy built with   *)
(* max_retries.  An attempt's result is retried when it is transient       *)
(* (a connect failure, a timeout, a 5xx, 408 or 429 response) and the      *)
(* policy still allows a retry.                                            *)
(***************************************************************************)
\* variant: every 4xx/5xx response is retried
IsTransientMutant(result) ==
    IF result.ok
    THEN IsClientError(result.val.status) \/ IsServerError(result.val.status)
    ELSE result.err \in {"connect", "timeout"}

\* the default retryable strategy of RetryTransientMiddleware
IsTransient(result) ==
    IF result.ok
    THEN IsServerError(result.val.status)
         \/ result.val.status = 408 \/ result.val.status = 429
    ELSE result.err \in {"connect", "timeout"}

\* variant: one more retry than the policy was built with
ShouldRetryMutant(http_client, n_past_retries) ==
    n_past_retries <= http_client.max_n_retries

\* ExponentialBackoff::should_retry, built with build_with_max_retries
ShouldRetry(http_client, n_past_retries) ==
    n_past_retries < http_client.max_n_retries

(***************************************************************************)
(* JSON and the derived Serialize impls (serde, serde_json).  A JSON value *)
(* is tagged with its kind; an object is the sequence of its members in    *)
(* the order they are written.  A derived Serialize writes the struct's    *)
(* fields in declaration order under their (renamed) keys, as the field's  *)
(* attributes say.                                                         *)
(***************************************************************************)
JNull == [j |-> "null"]
JStr(s) == [j |-> "str", str |-> s]
JNum(n) == [j |-> "num", num |-> n]
JBool(b) == [j |-> "bool", bool |-> b]
JArr(elems) == [j |-> "arr", arr |-> elems]
JObj(members) == [j |-> "obj", obj |-> members]

\* an f64: a finite number, or one of NaN and the infinities
Finite(n) == [finite |-> TRUE, n |-> n]
NaN == [finite |-> FALSE]

\* the types of the fields
Prim(n) == [k |-> "prim", n |-> n]
Enum(n) == [k |-> "enum", n |-> n]
Vec(t) == [k |-> "vec", of |-> t]
Struct(n) == [k |-> "struct", n |-> n]
Untagged(n) == [k |-> "untagged", n |-> n]
String == Prim("String")
U32 == Prim("u32")
U64 == Prim("u64")
F64 == Prim("f64")
Bool == Prim("bool")
Value == Prim("serde_json::Value")

\* a field that is always written under key; skip is "none" for
\* skip_serializing_if = "Option::is_none", "empty" for "String::is_empty",
\* "always" for skip_serializing; default is serde(default); opt is Option<_>
Field(name, key, type) ==
    [name |-> name, key |-> key, type |-> type,
     opt |-> FALSE, skip |-> "never", default |-> FALSE]

\* variant: an Option<_> field without skip_serializing_if
OptionFieldMutant(name, key, type) ==
    [Field(name, key, type) EXCEPT !.opt = TRUE]

\* an Option<_> field with skip_serializing_if = "Option::is_none"
OptionField(name, key, type) ==
    [Field(name, key, type) EXCEPT !.opt = TRUE, !.skip = "none"]

\* a field with serde(default)
DefaultField(name, key, type) ==
    [Field(name, key, type) EXCEPT !.default = TRUE]

\* variant: an Option<_> field with serde(default) only
DefaultOptionFieldMutant(name, key, type) ==
    [Field(name, key, type) EXCEPT !.opt = TRUE, !.default = TRUE]

\* an Option<_> field with serde(default, skip_serializing_if = "Option::is_none")
DefaultOptionField(name, key, type) ==
    [OptionField(name, key, type) EXCEPT !.default = TRUE]

\* mochow/api/database.rs
DatabaseFields(n) ==
    CASE n = "CreateDatabaseArgs" -> << Field("database", "database", String) >>
      [] n = "DropDatabaseArgs" -> << Field("database", "database", String) >>
      [] n = "ListDatabaseArgs" -> << >>

\* mochow/api/table.rs
TableFields(n) ==
    CASE n = "CreateTableArgs" ->
            << Field("database", "database", String),
               Field("table", "table", String),
               OptionField("description", "description", String),
               Field("replication", "replication", U32),
               Field("partition", "partition", Struct("Partition")),
               OptionField("enable_dynamic_field", "enableDynamicField", Bool),
               Field("schema", "schema", Struct("TableSchema")) >>
      [] n = "Partition" ->
            << DefaultField("partition_type", "partitionType", Enum("PartitionType")),
               DefaultField("partition_num", "partitionNum", U32) >>
      [] n = "TableSchema" ->
            << DefaultField("fields", "fields", Vec(Struct("FieldSchema"))),
               DefaultField("indexes", "indexes", Vec(Struct("IndexSchema"))) >>
      [] n = "FieldSchema" ->
            << DefaultField("field_name", "fieldName", String),
               Field("field_type", "fieldType", Enum("FieldType")),
               DefaultField("primary_key", "primaryKey", Bool),
               DefaultField("partition_key", "partitionKey", Bool),
               DefaultField("auto_increment", "autoIncrement", Bool),
               DefaultField("not_null", "notNull", Bool),
               DefaultOptionField("dimension", "dimension", U32) >>
      [] n \in {"DropTableArgs", "DescriptTableArgs", "StatsTableArgs"} ->
            << Field("database", "database", String),
               Field("table", "table", String) >>
      [] n = "ListTableArgs" -> << Field("database", "database", String) >>
      [] n = "AddFieldArgs" ->
            << Field("database", "database", String),
               Field("table", "table", String),
               Field("schema", "schema", Struct("TableSchema")) >>
      [] n \in {"AliasTableArgs", "UnaliasTableArgs"} ->
            << Field("database", "database", String),
               Field("table", "table", String),
               Field("alias", "alias", String) >>

\* mochow/api/index.rs
IndexFields(n) ==
    CASE n = "CreateIndexArgs" ->
            << Field("database", "database", String),
               Field("table", "table", String),
               DefaultField("indexes", "indexes", Vec(Struct("IndexSchema"))) >>
      [] n = "IndexSchema" ->
            << DefaultField("index_name", "indexName", String),
               DefaultOptionField("index_type", "indexType", Enum("IndexType")),
               DefaultOptionField("metric_type", "metricType", Enum("MetricType")),
               DefaultOptionField("params", "params", Untagged("VectorIndexParams")),
               Field("field", "field", String),
               DefaultField("auto_build", "autoBuild", Bool),
               [DefaultOptionField("state", "state", Enum("IndexState"))
                    EXCEPT !.skip = "always"],
               DefaultOptionField("auto_build_policy", "autoBuildPolicy",
                                  Struct("AutoBuildPolicy")),
               DefaultOptionField("index_major_version", "indexMajorVersion", U64) >>
      [] n = "AutoBuildPolicy" ->
            << DefaultOptionField("policy_type", "policyType",
                                  Enum("AutoBuildPolicyType")),
               [DefaultField("timing", "timing", String) EXCEPT !.skip = "empty"],
               DefaultField("period_in_second", "periodInSecond", U64),
               DefaultField("row_count_increment", "rowCountIncrement", U64),
               DefaultField("row_count_increment_ratio", "rowCountIncrementRatio",
                            F64) >>
      [] n = "HNSWIndexParam" ->
            << Field("m", "M", U32),
               Field("ef_construction", "efConstruction", U32) >>
      [] n = "HNSWPQIndexParam" ->
            << Field("m", "M", U32),
               Field("ef_construction", "efConstruction", U32),
               Field("nsq", "NSQ", U32),
               Field("sample_rate", "sampleRate", F64) >>
      [] n = "PUCKIndexParam" ->
            << Field("coarse_cluster_count", "coarseClusterCount", U32),
               Field("fine_cluster_count", "fineClusterCount", U32) >>
      [] n \in {"DescriptIndexArgs", "RebuildIndexArgs", "DeleteIndexArgs"} ->
            << Field("database", "database", String),
               Field("table", "table", String),
               Field("index_name", "indexName", String) >>
      [] n = "ModifyIndexArgs" ->
            << Field("database", "database", String),
               Field("table", "table", String),
               Field("index", "index", Struct("IndexSchema")) >>

\* the variants of enum VectorIndexParams, in declaration order, each with
\* the struct it wraps
VectorIndexParams ==
    << [variant |-> "HNSWPQ", of |-> "HNSWPQIndexParam"],
       [variant |-> "HNSW", of |-> "HNSWIndexParam"],
       [variant |-> "PUCK", of |-> "PUCKIndexParam"] >>

\* the variants of enum VectorSearchParams (mochow/api/row.rs), in
\* declaration order, each with the struct it wraps
VectorSearchParams ==
    << [variant |-> "FLAT", of |-> "FLATSearchParams"],
       [variant |-> "HNSW", of |-> "HNSWSearchParams"],
       [variant |-> "HNSWPQ", of |-> "HNSWPQSearchParams"],
       [variant |-> "PUCK", of |-> "PUCKSearchParams"] >>

\* variant: the HNSW search parameters are written as the HNSWPQ ones are
VariantsMutant(n) ==
    CASE n = "VectorIndexParams" -> VectorIndexParams
      [] n = "VectorSearchParams" ->
            [VectorSearchParams EXCEPT ![2].of = "HNSWPQSearchParams"]

\* the variants of the untagged enum n
Variants(n) ==
    CASE n = "VectorIndexParams" -> VectorIndexParams
      [] n = "VectorSearchParams" -> VectorSearchParams

\* mochow/api/row.rs
RowFields(n) ==
    CASE n \in {"InsertRowArgs", "UpsertRowArgs"} ->
            << Field("database", "database", String),
               Field("table", "table", String),
               Field("rows", "rows", Vec(Value)) >>
      [] n = "UpdateRowArgs" ->
            << Field("database", "database", String),
               Field("table", "table", String),
               Field("primary_key", "primaryKey", Value),
               OptionField("partition_ey", "partitionKey", Value),
               Field("update", "update", Value) >>
      [] n = "DeleteRowArgs" ->
            << Field("database", "database", String),
               Field("table", "table", String),
               OptionField("primary_key", "primaryKey", Value),
               OptionField("partition_ey", "partitionKey", Value),
               OptionField("filter", "filter", String) >>
      [] n = "QueryRowArgs" ->
            << Field("database", "database", String),
               Field("table", "table", String),
               Field("primary_key", "primaryKey", Value),
               OptionField("partition_key", "partitionKey", Value),
               OptionField("projections", "projections", Vec(String)),
               OptionField("retrieve_vector", "retrieveVector", Bool),
               OptionField("read_consistency", "readConsistency",
                           Enum("ReadConsistency")) >>
      [] n \in {"AnnsSearchParams", "BatchAnnsSearchParams"} ->
            << Field("vector_field", "vectorField", String),
               Field("vector_floats", "vectorFloats",
                     IF n = "AnnsSearchParams" THEN Vec(F64) ELSE Vec(Vec(F64))),
               Field("params", "params", Untagged("VectorSearchParams")),
               OptionField("filter", "filter", String) >>
      [] n = "FLATSearchParams" ->
            << Field("limit", "limit", U32),
               OptionField("distance_far", "distanceFar", F64),
               OptionField("distance_near", "distanceNear", F64) >>
      [] n = "HNSWSearchParams" ->
            << Field("ef", "ef", U32),
               Field("limit", "limit", U32),
               OptionField("distance_far", "distanceFar", F64),
               OptionField("distance_near", "distanceNear", F64),
               Field("pruning", "pruning", Bool) >>
      [] n = "HNSWPQSearchParams" ->
            << Field("ef", "ef", U32),
               Field("limit", "limit", U32),
               OptionField("distance_far", "distanceFar", F64),
               OptionField("distance_near", "distanceNear", F64) >>
      [] n = "PUCKSearchParams" ->
            << Field("search_coarse_count", "searchCoarseCount", U32),
               Field("limit", "limit", U32),
               OptionField("distance_far", "distanceFar", F64),
               OptionField("distance_near", "distanceNear", F64) >>
      [] n \in {"SearchRowsArgs", "BatchSearchRowsArgs"} ->
            << Field("database", "database", String),
               Field("table", "table", String),
               Field("anns", "anns",
                     Struct(IF n = "SearchRowsArgs" THEN "AnnsSearchParams"
                            ELSE "BatchAnnsSearchParams")),
               OptionField("partition_ey", "partitionKey", Value),
               OptionField("projections", "projections", Vec(String)),
               OptionField("retrieve_vector", "retrieveVector", Bool),
               OptionField("read_consistency", "readConsistency", String) >>
      [] n = "SelectRowsArgs" ->
            << Field("database", "database", String),
               Field("table", "table", String),
               OptionField("filter", "filter", String),
               OptionField("marker", "marker", Value),
               OptionField("limit", "limit", U32),
               OptionField("projections", "projections", Vec(String)),
               OptionField("read_consistency", "readConsistency", String) >>

DatabaseStructs == {"CreateDatabaseArgs", "DropDatabaseArgs", "ListDatabaseArgs"}
TableStructs ==
    {"CreateTableArgs", "Partition", "TableSchema", "FieldSchema", "DropTableArgs",
     "ListTableArgs", "DescriptTableArgs", "AddFieldArgs", "StatsTableArgs",
     "AliasTableArgs", "UnaliasTableArgs"}
IndexStructs ==
    {"CreateIndexArgs", "IndexSchema", "AutoBuildPolicy", "HNSWIndexParam",
     "HNSWPQIndexParam", "PUCKIndexParam", "DescriptIndexArgs", "RebuildIndexArgs",
     "DeleteIndexArgs", "ModifyIndexArgs"}

\* the fields of struct n, in declaration order
Fields(n) ==
    CASE n \in DatabaseStructs -> DatabaseFields(n)
      [] n \in TableStructs -> TableFields(n)
      [] n \in IndexStructs -> IndexFields(n)
      [] OTHER -> RowFields(n)

\* the name an enum's variant is written as (serde(rename))
EnumName(variant) ==
    CASE variant = "SECONDARY_INDEX" -> "SECONDARY"
      [] variant = "Int16" -> "INT16"
      [] variant = "Uint16" -> "UINT16"
      [] OTHER -> variant

\* serde_json writes a number as itself, but an f64 that is NaN or infinite
\* as null
SerializePrim(n, v) ==
    CASE n = "String" -> JStr(v)
      [] n \in {"u32", "u64"} -> JNum(v)
      [] n = "f64" -> IF v.finite THEN JNum(v.n) ELSE JNull
      [] n = "bool" -> JBool(v)
      [] n = "serde_json::Value" -> v

RECURSIVE Serialize(_, _)
RECURSIVE SerializeFields(_, _)
\* the members a derived Serialize writes for the fields of struct value v
SerializeFields(fields, v) ==
    IF fields = <<>> THEN <<>>
    ELSE LET f == Head(fields)
             x == v[f.name]
             member ==
                IF f.skip = "always" THEN <<>>
                ELSE IF f.opt
                THEN IF x.set THEN << <<f.key, Serialize(f.type, x.v)>> >>
                     ELSE IF f.skip = "none" THEN <<>>
                     ELSE << <<f.key, JNull>> >>
                ELSE IF f.skip = "empty" /\ x = <<>> THEN <<>>
                ELSE << <<f.key, Serialize(f.type, x)>> >>
         IN  member \o SerializeFields(Tail(fields), v)

\* serde_json::to_value of a value v of the given type; a value of an untagged
\* enum is written as the struct its variant wraps
Serialize(type, v) ==
    CASE type.k = "prim" -> SerializePrim(type.n, v)
      [] type.k = "enum" -> JStr(EnumName(v))
      [] type.k = "vec" -> JArr([i \in DOMAIN v |-> Serialize(type.of, v[i])])
      [] type.k = "struct" -> JObj(SerializeFields(Fields(type.n), v))
      [] type.k = "untagged" ->
            LET w == CHOOSE w \in { Variants(type.n)[i] : i \in DOMAIN Variants(type.n) } :
                        w.variant = v.variant
            IN  Serialize(Struct(w.of), v.val)

\* the variants of the unit enums (mochow/api/enums.rs)
EnumVariants(n) ==
    CASE n = "AutoBuildPolicyType" -> {"TIMING", "PERIODICAL", "ROW_COUNT_INCREMENT"}
      [] n = "FieldType" ->
            {"BOOL", "INT8", "UINT8", "Int16", "Uint16", "INT32", "UINT32", "INT64",
             "UINT64", "FLOAT", "DOUBLE", "DATE", "DATETIME", "TIMESTAMP", "STRING",
             "BINARY", "UUID", "TEXT", "TEXT_GBK", "TEXT_GB18030", "FLOAT_VECTOR"}
      [] n = "IndexState" -> {"INVALID", "BUILDING", "NORMAL"}
      [] n = "TableState" -> {"INVALID", "CREATING", "NORMAL", "DELETING"}
      [] n = "IndexType" -> {"FLAT", "HNSW", "HNSWPQ", "PUCK", "SECONDARY_INDEX"}
      [] n = "MetricType" -> {"L2", "IP", "COSINE"}
      [] n = "PartitionType" -> {"HASH"}
      [] n = "ReadConsistency" -> {"EVENTUAL", "STRONG"}

\* the names a variant is read from: its serde(rename), and its serde(alias)
EnumAliases(n, variant) ==
    {EnumName(variant)}
    \cup (IF n = "AutoBuildPolicyType"
          THEN { CASE variant = "TIMING" -> "timing"
                   [] variant = "PERIODICAL" -> "periodical"
                   [] variant = "ROW_COUNT_INCREMENT" -> "row_count_increment" }
          ELSE {})

\* Default::default() of a field's type
DefaultOf(type) ==
    CASE type.k = "vec" -> <<>>
      [] type.k = "enum" /\ type.n = "PartitionType" -> "HASH"
      [] type.k = "enum" /\ type.n = "ReadConsistency" -> "EVENTUAL"
      [] type.k = "prim" /\ type.n = "String" -> <<>>
      [] type.k = "prim" /\ type.n \in {"u32", "u64"} -> 0
      [] type.k = "prim" /\ type.n = "f64" -> Finite(0)
      [] type.k = "prim" /\ type.n = "bool" -> FALSE

\* Deserialize of String, u32, u64, f64, bool, serde_json::Value: each reads
\* a JSON value of its own kind; null is no number
DeserializePrim(n, json) ==
    CASE n = "String" -> IF json.j = "str" THEN Ok(json.str) ELSE Err("invalid type")
      [] n \in {"u32", "u64"} ->
            IF json.j = "num" THEN Ok(json.num) ELSE Err("invalid type")
      [] n = "f64" ->
            IF json.j = "num" THEN Ok(Finite(json.num)) ELSE Err("invalid type")
      [] n = "bool" -> IF json.j = "bool" THEN Ok(json.bool) ELSE Err("invalid type")
      [] n = "serde_json::Value" -> Ok(json)

RECURSIVE Deserialize(_, _)
RECURSIVE DeserializeFields(_, _)
RECURSIVE DeserializeUntagged(_, _)
\* the fields a derived Deserialize reads from a JSON object, as a function
\* from the field names; members under other keys are ignored.  An absent
\* member gives None for an Option, the default with serde(default), and is
\* an error otherwise; a null member gives None for an Option.
DeserializeFields(fields, obj) ==
    IF fields = <<>> THEN Ok(<<>>)
    ELSE LET f == Head(fields)
             member == IF \E i \in DOMAIN obj.obj : obj.obj[i][1] = f.key
                       THEN Set(obj.obj[CHOOSE i \in DOMAIN obj.obj :
                                            obj.obj[i][1] = f.key][2])
                       ELSE Unset
             read == IF ~member.set
                     THEN IF f.opt THEN Ok(Unset)
                          ELSE IF f.default THEN Ok(DefaultOf(f.type))
                          ELSE Err("missing field")
                     ELSE IF f.opt
                     THEN IF member.v.j = "null" THEN Ok(Unset)
                          ELSE LET x == Deserialize(f.type, member.v)
                               IN  IF x.ok THEN Ok(Set(x.val)) ELSE x
                     ELSE Deserialize(f.type, member.v)
             rest == DeserializeFields(Tail(fields), obj)
         IN  IF ~read.ok THEN read
             ELSE IF ~rest.ok THEN rest
             ELSE Ok((f.name :> read.val) @@ rest.val)

\* #[serde(untagged)]: the variants are tried in declaration order and the
\* first one that reads the value is taken
DeserializeUntagged(variants, json) ==
    IF variants = <<>> THEN Err("data did not match any variant")
    ELSE LET x == Deserialize(Struct(Head(variants).of), json)
         IN  IF x.ok THEN Ok([variant |-> Head(variants).variant, val |-> x.val])
             ELSE DeserializeUntagged(Tail(variants), json)

\* serde_json::from_value as a value of the given type
Deserialize(type, json) ==
    CASE type.k = "prim" -> DeserializePrim(type.n, json)
      [] type.k = "enum" ->
            IF json.j = "str"
               /\ \E w \in EnumVariants(type.n) : json.str \in EnumAliases(type.n, w)
            THEN Ok(CHOOSE w \in EnumVariants(type.n) :
                        json.str \in EnumAliases(type.n, w))
            ELSE Err("unknown variant")
      [] type.k = "vec" ->
            IF json.j # "arr" THEN Err("invalid type")
            ELSE LET xs == [i \in DOMAIN json.arr |-> Deserialize(type.of, json.arr[i])]
                 IN  IF \A i \in DOMAIN xs : xs[i].ok
                     THEN Ok([i \in DOMAIN xs |-> xs[i].val])
                     ELSE Err("invalid element")
      [] type.k = "struct" ->
            IF json.j # "obj" THEN Err("invalid type")
            ELSE DeserializeFields(Fields(type.n), json)
      [] type.k = "untagged" -> DeserializeUntagged(Variants(type.n), json)

\* the value of member key of a JSON object, if it has one
Member(obj, key) ==
    IF \E i \in DOMAIN obj.obj : obj.obj[i][1] = key
    THEN Set(obj.obj[CHOOSE i \in DOMAIN obj.obj : obj.obj[i][1] = key][2])
    ELSE Unset

\* the keys of a JSON object, in order
Keys(obj) == [i \in DOMAIN obj.obj |-> obj.obj[i][1]]

(***************************************************************************)
(* Requests (IntoRequest impls, MochowClient::prepare_request).            *)
(***************************************************************************)
\* variant: the action is left out of the url
UrlMutant(config, segment, action) ==
    config.endpoint \o <<"/">> \o config.version \o <<"/", segment>>

\* format!("{}/{}/<segment>?<action>", config.endpoint, config.version); the
\* impls of the drop operations have no "?<action>"
Url(config, segment, action) ==
    config.endpoint \o <<"/">> \o config.version \o <<"/", segment>>
    \o (IF action = "" THEN <<>> ELSE <<"?", action>>)

ContentTypeJson == <<"content-type", <<"application/json">> >>

\* client.post(url), client.delete(url)
RequestTo(method, url) ==
    [method |-> method, url |-> url, headers |-> <<>>, body |-> Unset,
     timeout |-> Unset]

\* RequestBuilder::json: the body, and the Content-Type header
WithJson(req, type, a) ==
    [req EXCEPT !.headers = @ \o <<ContentTypeJson>>,
                !.body = Set(Serialize(Struct(type), a))]

\* the struct each operation's args are
ArgsType(o) ==
    CASE o = "create_database" -> "CreateDatabaseArgs"
      [] o = "drop_database" -> "DropDatabaseArgs"
      [] o \in {"list_database", "hash_database"} -> "ListDatabaseArgs"
      [] o = "create_table" -> "CreateTableArgs"
      [] o = "drop_table" -> "DropTableArgs"
      [] o \in {"list_table", "has_table"} -> "ListTableArgs"
      [] o = "desc_table" -> "DescriptTableArgs"
      [] o = "add_field" -> "AddFieldArgs"
      [] o = "show_table_stats" -> "StatsTableArgs"
      [] o = "alias_table" -> "AliasTableArgs"
      [] o = "unalias_table" -> "UnaliasTableArgs"
      [] o = "create_index" -> "CreateIndexArgs"
      [] o = "desc_index" -> "DescriptIndexArgs"
      [] o = "rebuild_index" -> "RebuildIndexArgs"
      [] o = "delete_index" -> "DeleteIndexArgs"
      [] o = "modify_index" -> "ModifyIndexArgs"
      [] o = "insert_row" -> "InsertRowArgs"
      [] o = "upsert_row" -> "UpsertRowArgs"
      [] o = "update_row" -> "UpdateRowArgs"
      [] o = "delete_rows" -> "DeleteRowArgs"
      [] o = "query_row" -> "QueryRowArgs"
      [] o = "search_rows" -> "SearchRowsArgs"
      [] o = "select_rows" -> "SelectRowsArgs"
      [] o = "batch_search_rows" -> "BatchSearchRowsArgs"

\* IntoRequest::into_request of the args structs of mochow/api/database.rs
DatabaseIntoRequest(type, a, config) ==
    CASE type = "CreateDatabaseArgs" ->
            WithJson(RequestTo("POST", Url(config, "database", "create")), type, a)
      [] type = "DropDatabaseArgs" ->
            WithJson(RequestTo("DELETE", Url(config, "database", "")), type, a)
      [] type = "ListDatabaseArgs" ->
            RequestTo("POST", Url(config, "database", "list"))

\* IntoRequest::into_request of the args structs of mochow/api/table.rs
TableIntoRequest(type, a, config) ==
    LET Post(action) ==
            WithJson(RequestTo("POST", Url(config, "table", action)), type, a)
    IN  CASE type = "CreateTableArgs" -> Post("create")
          [] type = "DropTableArgs" ->
                WithJson(RequestTo("DELETE", Url(config, "table", "")), type, a)
          [] type = "ListTableArgs" -> Post("list")
          [] type = "DescriptTableArgs" -> Post("desc")
          [] type = "AddFieldArgs" -> Post("addField")
          [] type = "StatsTableArgs" -> Post("stats")
          [] type = "AliasTableArgs" -> Post("alias")
          [] type = "UnaliasTableArgs" -> Post("unalias")

\* variant: delete_index is a POST with the action "delete"
IndexIntoRequestMutant(type, a, config) ==
    LET Post(action) ==
            WithJson(RequestTo("POST", Url(config, "index", action)), type, a)
    IN  CASE type = "CreateIndexArgs" -> Post("create")
          [] type = "DescriptIndexArgs" -> Post("desc")
          [] type = "RebuildIndexArgs" -> Post("rebuild")
          [] type = "DeleteIndexArgs" -> Post("delete")
          [] type = "ModifyIndexArgs" -> Post("modify")

\* IntoRequest::into_request of the args structs of mochow/api/index.rs
IndexIntoRequest(type, a, config) ==
    LET Post(action) ==
            WithJson(RequestTo("POST", Url(config, "index", action)), type, a)
    IN  CASE type = "CreateIndexArgs" -> Post("create")
          [] type = "DescriptIndexArgs" -> Post("desc")
          [] type = "RebuildIndexArgs" -> Post("rebuild")
          [] type = "DeleteIndexArgs" ->
                WithJson(RequestTo("DELETE", Url(config, "index", "")), type, a)
          [] type = "ModifyIndexArgs" -> Post("modify")

\* variant: insert sends the first 1000 rows only
RowIntoRequestMutant(type, a, config) ==
    WithJson(RequestTo("POST", Url(config, "row", "insert")), type,
             [a EXCEPT !.rows = IF Len(@) > 1000 THEN SubSeq(@, 1, 1000) ELSE @])

\* IntoRequest::into_request of the args structs of mochow/api/row.rs
RowIntoRequest(type, a, config) ==
    LET Post(action) ==
            WithJson(RequestTo("POST", Url(config, "row", action)), type, a)
    IN  CASE type = "InsertRowArgs" -> Post("insert")
          [] type = "UpsertRowArgs" -> Post("upsert")
          [] type = "UpdateRowArgs" -> Post("update")
          [] type = "DeleteRowArgs" -> Post("delete")
          [] type = "QueryRowArgs" -> Post("query")
          [] type = "SearchRowsArgs" -> Post("search")
          [] type = "SelectRowsArgs" -> Post("select")
          [] type = "BatchSearchRowsArgs" -> Post("batchSearch")

IntoRequest(type, a, config) ==
    CASE type \in DatabaseStructs -> DatabaseIntoRequest(type, a, config)
      [] type \in TableStructs -> TableIntoRequest(type, a, config)
      [] type \in IndexStructs -> IndexIntoRequest(type, a, config)
      [] OTHER -> RowIntoRequest(type, a, config)

SdkName == <<"mochow-sdk-rust">>
Bearer == <<"Bearer ">>

\* variant: no User-Agent header
GetRequestHeadersMutant(config) == <<>>

\* the byte of a character of a User-Agent value; the sdk's name, kept as one
\* piece, is lowercase letters and "-" only
Byte(c) ==
    CASE c = "mochow-sdk-rust" -> 109
      [] c = "/" -> 47
      [] c = "u" -> 117
      [] c = "\n" -> 10

\* HeaderValue::from_str: every byte has to be visible ASCII
HeaderValueFromStr(s) ==
    IF \A i \in DOMAIN s : IsVisibleAscii(Byte(s[i]))
    THEN Ok(s) ELSE Err("InvalidHeaderValue")

\* get_request_headers: let user_agent = ...
UserAgent(config) ==
    IF IsEmpty(config.user_agent) THEN SdkName
    ELSE SdkName \o <<"/">> \o config.user_agent

\* get_request_headers: HeaderValue::from_str(&user_agent).unwrap() panics
GetRequestHeadersPanics(config) == ~HeaderValueFromStr(UserAgent(config)).ok

\* ClientConfiguration::get_request_headers, when it returns
GetRequestHeaders(config) ==
    << <<"user-agent", HeaderValueFromStr(UserAgent(config)).val>> >>

\* variant: the request is sent without the bearer token
PrepareRequestMutant(c, type, a) ==
    LET req == IntoRequest(type, a, c.configuration)
    IN  [req EXCEPT !.headers = @ \o GetRequestHeaders(c.configuration),
                    !.timeout = Set(c.configuration.time_out_seconds)]

\* MochowClient::prepare_request
PrepareRequest(c, type, a) ==
    LET req == IntoRequest(type, a, c.configuration)
        authed == IF ~IsEmpty(c.credential.token)
                  THEN [req EXCEPT !.headers =
                            @ \o << <<"authorization", Bearer \o c.credential.token>> >>]
                  ELSE req
    IN  [authed EXCEPT !.headers = @ \o GetRequestHeaders(c.configuration),
                       !.timeout = Set(c.configuration.time_out_seconds)]

(***************************************************************************)
(* State.                                                                  *)
(***************************************************************************)
VARIABLES
    fn,         \* the constructor, builder or lookup last called ("none" at start)
    args,       \* its arguments
    ret,        \* its result
    client,     \* the MochowClient the operations are called on
    pc,         \* where the current operation call stands
    op,         \* the operation being called
    attempts,   \* HTTP attempts sent so far for the current call
    answered,   \* the HTTP status that answered the last attempt, 0 when none did
    expired,    \* the step of the current attempt at which the timeout expired
    resp,       \* the response the retry middleware handed to send_and_log
    outcome,    \* what the call returned to its caller
    params,     \* the parameters the operation was called with
    req,        \* the request prepare_request built for the current call
    prev,       \* how the call before the current one ended, for a caller that notes it
    peer,       \* a second call in flight on the same client, while it is not running
    caller      \* the calling code, when it is a loop over the pages of a select

vars ==
    <<fn, args, ret, client, pc, op, attempts, answered, expired, resp, outcome,
      params, req, prev, peer, caller>>
fnVars == <<fn, args, ret>>
\* the call that is running
runVars == <<pc, op, attempts, answered, expired, resp, outcome, params, req>>
callVars == <<client, runVars, prev, peer, caller>>

None == [none |-> TRUE]

(***************************************************************************)
(* Inputs.                                                                 *)
(***************************************************************************)
Chars == {"a", "&"}
Strings == SeqsUpTo(Chars, MaxLen)

\* endpoints: with a scheme, with a near miss of one, with none; "" included
Prefixes ==
    { <<>>, SchemeHttp, SchemeHttps,
      <<"h", "t", "t", "p", ":", "/">>,
      <<"H", "T", "T", "P", ":", "/", "/">>,
      <<"h", "t", "t", "p", "s", ":">> }
Endpoints == { p \o h : p \in Prefixes, h \in SeqsUpTo({"h", "/"}, MaxLen) }

UserAgents == { <<>>, <<"u">> }
TimeOuts == { 5 }

Configurations ==
    [account : Strings, api_key : Strings, endpoint : Endpoints,
     version : {Version}, time_out_seconds : TimeOuts \cup {DefaultTimeOutSeconds},
     max_retries : 0..MaxRetries, user_agent : UserAgents]

Opt(S) == {Unset} \cup { Set(v) : v \in S }

ConfigurationBuilders ==
    [account : Opt(Strings), api_key : Opt(Strings), endpoint : Opt(Endpoints),
     time_out_seconds : Opt(TimeOuts), max_retries : Opt(0..MaxRetries),
     user_agent : Opt({<<"u">>})]

CreateDatabaseArgsBuilders == [database : Opt(Strings)]

\* every choice of which setters of CreateTableArgsBuilder have been called
CreateTableArgsBuilders ==
    [database : Opt({<<"a">>}), table : Opt({<<"a">>}), description : Opt({<<"d">>}),
     replication : Opt({3}),
     partition : Opt({[partition_type |-> "HASH", partition_num |-> 1]}),
     enable_dynamic_field : Opt({TRUE}),
     schema : Opt({[fields |-> <<>>, indexes |-> <<>>]})]

CodeInputs == (-3)..MaxCode \cup {-2147483647 - 1, 2147483647}

Ops == {"create_database", "list_database", "desc_table"}

Statuses == {101, 200, 299, 304, 399, 400, 408, 429, 499, 500, 599, 600}

RequestIdHeaders == {NoHeader, Header(<<114, 49>>), Header(<<195, 169>>)}

Envelopes ==
    { [code |-> 0, msg |-> "Success"],
      [code |-> 51, msg |-> "Database Already Exists"],
      [code |-> 7, msg |-> "Unlisted"] }

Bodies ==
    { [kind |-> "json", code |-> e.code, msg |-> e.msg, payload |-> p,
       names |-> <<>>] :
        e \in Envelopes, p \in BOOLEAN }
    \cup { [kind |-> "invalid"], [kind |-> "timeout"] }

Responses == [status : Statuses, request_id : RequestIdHeaders, body : Bodies]

\* what one attempt gives the retry middleware: a response, or a reqwest error
AttemptResults ==
    { Ok(r) : r \in Responses } \cup { Err(e) : e \in {"connect", "timeout", "redirect"} }

\* the configurations of the clients the operations are called on
CallConfigurations ==
    [account : {<<"a">>}, api_key : {<<"a">>}, endpoint : {<<"h">>},
     version : {Version}, time_out_seconds : {DefaultTimeOutSeconds},
     max_retries : 0..MaxRetries \cup {DefaultMaxRetries}, user_agent : {<<>>}]

\* the batches given to insert_row: rows 1..n in order, the same rows in
\* reverse order, and a batch that repeats a row; n goes beyond the maximum
\* of 1000 rows the documentation of InsertRowArgs gives
Row(i) == JObj(<< <<"id", JNum(i)>> >>)

Batches ==
    { [i \in 1..n |-> Row(i)] : n \in BatchSizes }
    \cup { [i \in 1..n |-> Row(n + 1 - i)] : n \in BatchSizes }
    \cup { <<Row(1), Row(1)>> }

(***************************************************************************)
(* Constructors, builders and the lookup, each called on drawn inputs; a    *)
(* behaviour makes one such call, and may then construct a client again    *)
(* from the configuration of the client it got.                            *)
(***************************************************************************)
Called(f, a, r) ==
    /\ fn' = f
    /\ args' = a
    /\ ret' = r
    /\ UNCHANGED callVars

\* accounts and api keys that contain the token's own separator
RECURSIVE Concat(_)
Concat(pieces) ==
    IF pieces = <<>> THEN <<>> ELSE Head(pieces) \o Concat(Tail(pieces))

Secrets == { Concat(pieces) : pieces \in SeqsUpTo({<<"a">>, TokenApiKey}, MaxPieces) }

CallCredentialsNew ==
    /\ fn = "none"
    /\ \E a \in Strings \cup Secrets, k \in Strings \cup Secrets :
        Called("Credentials::new", <<a, k>>, CredentialsNew(a, k))

CallClientConfigurationBuild ==
    /\ fn = "none"
    /\ \E b \in ConfigurationBuilders :
        Called("ClientConfigurationBuilder::build", b, Try(ClientConfigurationBuild(b)))

CallCreateDatabaseArgsBuild ==
    /\ fn = "none"
    /\ \E b \in CreateDatabaseArgsBuilders :
        Called("CreateDatabaseArgsBuilder::build", b, Try(CreateDatabaseArgsBuild(b)))

CallCreateTableArgsBuild ==
    /\ fn = "none"
    /\ \E b \in CreateTableArgsBuilders :
        Called("CreateTableArgsBuilder::build", b, Try(CreateTableArgsBuild(b)))

CallNewWithConfiguration ==
    /\ fn = "none"
    /\ \E c \in Configurations :
        Called("MochowClient::new_with_configuration", c, NewWithConfiguration(c))

CallNew ==
    /\ fn = "none"
    /\ \E a \in Strings, k \in Strings, e \in Endpoints :
        Called("MochowClient::new", <<a, k, e>>, MochowClientNew(a, k, e))

\* a client constructed again from the configuration of a constructed client
CallNewAgain ==
    /\ fn \in {"MochowClient::new", "MochowClient::new_with_configuration"}
    /\ ret.ok
    /\ Called("MochowClient::new_with_configuration again", ret.val.configuration,
              NewWithConfiguration(ret.val.configuration))

CallServerErrorCodeFrom ==
    /\ fn = "none"
    /\ \E v \in CodeInputs :
        Called("ServerErrorCode::from", v, ServerErrorCodeFrom(v))

FnInit ==
    /\ fn = "none"
    /\ args = None
    /\ ret = None

\* a call that has not been entered
IdleCall ==
    [pc |-> "idle", op |-> "none", attempts |-> 0, answered |-> 0,
     expired |-> "no", resp |-> None, outcome |-> None, params |-> None,
     req |-> None]

\* the running call, as a record
Running ==
    [pc |-> pc, op |-> op, attempts |-> attempts, answered |-> answered,
     expired |-> expired, resp |-> resp, outcome |-> outcome, params |-> params,
     req |-> req]

Idle ==
    /\ pc = IdleCall.pc
    /\ op = IdleCall.op
    /\ attempts = IdleCall.attempts
    /\ answered = IdleCall.answered
    /\ expired = IdleCall.expired
    /\ resp = IdleCall.resp
    /\ outcome = IdleCall.outcome
    /\ params = IdleCall.params
    /\ req = IdleCall.req
    /\ prev = "none"
    /\ peer = IdleCall
    /\ caller = None

\* before any client is constructed
FnStart == FnInit /\ client = None /\ Idle

\* after a client has been constructed
Init ==
    /\ FnInit
    /\ client \in { NewWithConfiguration(c).val : c \in CallConfigurations }
    /\ Idle

FnNext ==
    \/ CallCredentialsNew
    \/ CallClientConfigurationBuild
    \/ CallCreateDatabaseArgsBuild
    \/ CallCreateTableArgsBuild
    \/ CallNewWithConfiguration
    \/ CallNew
    \/ CallNewAgain
    \/ CallServerErrorCodeFrom

\* the constructors, the builders and the lookup
SpecFn == FnStart /\ [][FnNext]_vars

(***************************************************************************)
(* Schemas written as JSON and read back.                                  *)
(***************************************************************************)
HNSW(m, ef_construction) ==
    [variant |-> "HNSW", val |-> [m |-> m, ef_construction |-> ef_construction]]
HNSWPQ(m, ef_construction, nsq, sample_rate) ==
    [variant |-> "HNSWPQ",
     val |-> [m |-> m, ef_construction |-> ef_construction, nsq |-> nsq,
              sample_rate |-> sample_rate]]
PUCK(coarse_cluster_count, fine_cluster_count) ==
    [variant |-> "PUCK",
     val |-> [coarse_cluster_count |-> coarse_cluster_count,
              fine_cluster_count |-> fine_cluster_count]]

IndexParams ==
    { HNSW(16, 200), HNSW(8, 20), PUCK(16, 200), PUCK(1, 5000) }
    \cup { HNSWPQ(16, 200, n, r) : n \in {4, 200}, r \in {Finite(0), Finite(1), NaN} }

\* the values of VectorSearchParams: every choice of which optional fields
\* are set
Distances == Opt({Finite(1)})

SearchParams ==
    { [variant |-> "FLAT",
       val |-> [limit |-> 50, distance_far |-> far, distance_near |-> near]] :
        far \in Distances, near \in Distances }
    \cup { [variant |-> "HNSW",
            val |-> [ef |-> 1, limit |-> 50, distance_far |-> far,
                     distance_near |-> near, pruning |-> pruning]] :
             far \in Distances, near \in Distances, pruning \in BOOLEAN }
    \cup { [variant |-> "HNSWPQ",
            val |-> [ef |-> 1, limit |-> 50, distance_far |-> far,
                     distance_near |-> near]] :
             far \in Distances, near \in Distances }
    \cup { [variant |-> "PUCK",
            val |-> [search_coarse_count |-> 1, limit |-> 50, distance_far |-> far,
                     distance_near |-> near]] :
             far \in Distances, near \in Distances }

\* an IndexSchema as its builder gives it: the server's fields unset
BuiltIndex(name, type, index_params) ==
    [index_name |-> name, index_type |-> type, metric_type |-> Set("L2"),
     params |-> index_params, field |-> <<"f">>, auto_build |-> FALSE, state |-> Unset,
     auto_build_policy |-> Unset, index_major_version |-> Unset]

\* an index as the body of a desc_index or desc_table response has it, with
\* the fields the server fills in
DescribedIndexJson ==
    JObj(<< <<"indexName", JStr(<<"m">>)>>,
            <<"indexType", JStr("HNSW")>>,
            <<"metricType", JStr("L2")>>,
            <<"params", JObj(<< <<"M", JNum(8)>>, <<"efConstruction", JNum(20)>> >>)>>,
            <<"field", JStr(<<"f">>)>>,
            <<"autoBuild", JBool(FALSE)>>,
            <<"state", JStr("NORMAL")>>,
            <<"indexMajorVersion", JNum(3)>> >>)

\* the IndexSchema the client reads from it
DescribedIndex == Deserialize(Struct("IndexSchema"), DescribedIndexJson).val

IndexSchemas ==
    { [BuiltIndex(<<"i">>, Set("SECONDARY_INDEX"), Unset) EXCEPT !.metric_type = Unset],
      BuiltIndex(<<"j">>, Set("HNSW"), Set(HNSW(16, 200))),
      BuiltIndex(<<"k">>, Set("HNSWPQ"), Set(HNSWPQ(16, 200, 4, Finite(1)))),
      [BuiltIndex(<<"l">>, Set("PUCK"), Set(PUCK(16, 200))) EXCEPT
          !.auto_build = TRUE,
          !.auto_build_policy =
              Set([policy_type |-> Set("PERIODICAL"), timing |-> <<>>,
                   period_in_second |-> 60, row_count_increment |-> 0,
                   row_count_increment_ratio |-> Finite(0)])],
      BuiltIndex(<<"n">>, Set("HNSWPQ"), Set(HNSWPQ(16, 200, 4, NaN))),
      DescribedIndex }

FieldSchemas ==
    { [field_name |-> <<"i", "d">>, field_type |-> "STRING", primary_key |-> TRUE,
       partition_key |-> TRUE, auto_increment |-> FALSE, not_null |-> TRUE,
       dimension |-> Unset],
      [field_name |-> <<"n">>, field_type |-> "Int16", primary_key |-> FALSE,
       partition_key |-> FALSE, auto_increment |-> FALSE, not_null |-> FALSE,
       dimension |-> Set(0)],
      [field_name |-> <<"v">>, field_type |-> "FLOAT_VECTOR", primary_key |-> FALSE,
       partition_key |-> FALSE, auto_increment |-> FALSE, not_null |-> TRUE,
       dimension |-> Set(3)] }

TableSchemas ==
    [fields : SeqsUpTo(FieldSchemas, MaxSchemaLen),
     indexes : SeqsUpTo(IndexSchemas, MaxSchemaLen)]

\* the schemas given to create_table, add_field and create_index
SomeSchemas ==
    { schema \in TableSchemas : Len(schema.fields) <= 1 /\ Len(schema.indexes) <= 1 }

\* serde_json::to_value, then serde_json::from_value of the result
RoundTrip(type, v) ==
    LET json == Serialize(type, v)
    IN  [json |-> json, back |-> Deserialize(type, json)]

CallVectorIndexParams ==
    /\ fn = "none"
    /\ \E v \in IndexParams :
        Called("VectorIndexParams", v, RoundTrip(Untagged("VectorIndexParams"), v))

CallTableSchema ==
    /\ fn = "none"
    /\ \E v \in TableSchemas :
        Called("TableSchema", v, RoundTrip(Struct("TableSchema"), v))

\* serde_json::to_value of the params of a search (Serialize only)
CallVectorSearchParams ==
    /\ fn = "none"
    /\ \E v \in SearchParams :
        Called("VectorSearchParams", v,
               [json |-> Serialize(Untagged("VectorSearchParams"), v)])

SerdeNext ==
    \/ CallVectorIndexParams
    \/ CallTableSchema
    \/ CallVectorSearchParams

SpecSerde == FnStart /\ [][SerdeNext]_vars

(***************************************************************************)
(* One operation call on the client (mochow/client.rs).  Every operation   *)
(* has the same shape: build the args, prepare_request, send_and_log, then *)
(* decode the body as the operation's response type.                       *)
(***************************************************************************)
\* the parameters each operation is called with
Params(o) ==
    CASE o \in {"create_database", "hash_database", "list_table"} ->
            { [data_base |-> <<"a">>] }
      [] o = "list_database" -> { <<>> }
      [] o \in {"desc_table", "has_table"} ->
            { [data_base |-> <<"a">>, table |-> <<"a">>] }
      [] o = "insert_row" ->
            { [database |-> <<"a">>, table |-> <<"a">>, rows |-> rows] :
                rows \in Batches }
      [] o = "drop_database" -> { [data_base |-> <<"a">>] }
      [] o \in {"drop_table", "show_table_stats"} ->
            { [data_base |-> <<"a">>, table |-> <<"a">>] }
      [] o \in {"desc_index", "rebuild_index", "delete_index"} ->
            { [data_base |-> <<"a">>, table |-> <<"a">>, index_name |-> <<"i">>] }
      [] o = "create_table" ->
            { [database |-> <<"a">>, table |-> <<"a">>, description |-> Set(<<"d">>),
               replication |-> 3,
               partition |-> [partition_type |-> "HASH", partition_num |-> 1],
               enable_dynamic_field |-> Set(FALSE), schema |-> schema] :
                schema \in SomeSchemas }
      [] o = "add_field" ->
            { [database |-> <<"a">>, table |-> <<"a">>, schema |-> schema] :
                schema \in SomeSchemas }
      [] o \in {"alias_table", "unalias_table"} ->
            { [database |-> <<"a">>, table |-> <<"a">>, alias |-> <<"b">>] }
      [] o = "create_index" ->
            { [database |-> <<"a">>, table |-> <<"a">>, indexes |-> schema.indexes] :
                schema \in SomeSchemas }
      [] o = "modify_index" ->
            { [database |-> <<"a">>, table |-> <<"a">>,
               index |-> index] :
                index \in { [BuiltIndex(<<"j">>, Unset, Unset) EXCEPT
                               !.metric_type = Unset, !.auto_build = TRUE],
                            [DescribedIndex EXCEPT !.auto_build = TRUE] } }
      [] o = "upsert_row" ->
            { [database |-> <<"a">>, table |-> <<"a">>, rows |-> <<Row(1)>>] }
      [] o = "update_row" ->
            { [database |-> <<"a">>, table |-> <<"a">>, primary_key |-> Row(1),
               partition_ey |-> Unset, update |-> Row(2)] }
      [] o = "delete_rows" ->
            { [database |-> <<"a">>, table |-> <<"a">>, primary_key |-> Set(Row(1)),
               partition_ey |-> Unset, filter |-> Unset],
              [database |-> <<"a">>, table |-> <<"a">>, primary_key |-> Unset,
               partition_ey |-> Unset, filter |-> Set(<<"f">>)] }
      [] o = "query_row" ->
            { [database |-> <<"a">>, table |-> <<"a">>, primary_key |-> Row(1),
               partition_key |-> Unset, projections |-> Unset,
               retrieve_vector |-> Set(TRUE), read_consistency |-> Set("STRONG")] }
      [] o \in {"search_rows", "batch_search_rows"} ->
            { [database |-> <<"a">>, table |-> <<"a">>,
               anns |-> [vector_field |-> <<"v">>,
                         vector_floats |-> IF o = "search_rows" THEN <<Finite(1)>>
                                           ELSE << <<Finite(1)>>, <<Finite(0)>> >>,
                         params |-> sp, filter |-> filter],
               partition_ey |-> Unset, projections |-> Unset,
               retrieve_vector |-> Unset, read_consistency |-> Unset] :
                sp \in SearchParams, filter \in Opt({<<"f">>}) }
      [] o = "select_rows" ->
            { [database |-> <<"a">>, table |-> <<"a">>, filter |-> Unset,
               marker |-> Unset, limit |-> Set(1), projections |-> Unset,
               read_consistency |-> Unset] }

\* the args each operation builds from its parameters p
BuildArgs(o, p) ==
    CASE o = "create_database" ->
            CreateDatabaseArgsBuild([database |-> Set(p.data_base)])
      [] o \in {"list_database", "hash_database"} ->
            ListDatabaseArgsBuild(<<>>)
      [] o \in {"list_table", "has_table"} ->
            ListTableArgsBuild([database |-> Set(p.data_base)])
      [] o = "drop_database" -> DropDatabaseArgsBuild([database |-> Set(p.data_base)])
      [] o \in {"drop_table", "show_table_stats"} ->
            TableArgsBuild([database |-> Set(p.data_base), table |-> Set(p.table)])
      [] o \in {"desc_index", "rebuild_index", "delete_index"} ->
            IndexArgsBuild([database |-> Set(p.data_base), table |-> Set(p.table),
                            index_name |-> Set(p.index_name)])
      \* the operations that are given their args: args.clone()
      [] o \in {"create_table", "add_field", "alias_table", "unalias_table",
                "create_index", "modify_index", "insert_row", "upsert_row",
                "update_row", "delete_rows", "query_row", "search_rows",
                "select_rows", "batch_search_rows"} -> Ok(p)
      [] o = "desc_table" ->
            DescriptTableArgsBuild([database |-> Set(p.data_base),
                                    table |-> Set(p.table)])

Returned(result) ==
    /\ pc' = "done"
    /\ outcome' = result

\* variant: only the first name of the list is looked at
ContainsMutant(names, name) == names # <<>> /\ names[1] = name

\* Vec::contains
Contains(names, name) == \E i \in DOMAIN names : names[i] = name

\* what the operation returns for the decoded response: the response itself,
\* but for the existence checks, which look the name up in the list
ReturnValue(o, p, decoded) ==
    CASE o = "hash_database" -> Contains(decoded.names, p.data_base)
      [] o = "has_table" -> Contains(decoded.names, p.table)
      [] OTHER -> decoded

\* the operation is entered: its args are built and the request is prepared
CallWith(o, p) ==
    /\ pc = "idle"
    /\ op' = o
    /\ attempts' = 0
    /\ answered' = 0
    /\ expired' = "no"
    /\ resp' = None
    /\ params' = p
    /\ LET built == Try(BuildArgs(o, p))
       IN  IF ~built.ok
           THEN /\ req' = None
                /\ Returned(built)
           ELSE IF GetRequestHeadersPanics(client.configuration)
           \* prepare_request unwinds: the call returns nothing
           THEN /\ req' = None
                /\ pc' = "panicked"
                /\ outcome' = None
           ELSE /\ req' = PrepareRequest(client, ArgsType(o), built.val)
                /\ pc' = "send"
                /\ outcome' = None
    /\ UNCHANGED <<client, prev, peer, fnVars>>

\* the operation is called with parameters the caller chose
Call(o) ==
    /\ \E p \in Params(o) : CallWith(o, p)
    /\ UNCHANGED caller

\* self.send().await?: one attempt made by the retry middleware, which either
\* sends the request again or hands the attempt's result to send_and_log
Attempt(result) ==
    /\ pc = "send"
    /\ attempts' = attempts + 1
    /\ answered' = IF result.ok THEN result.val.status ELSE 0
    /\ IF IsTransient(result) /\ ShouldRetry(client.http_client, attempts)
       THEN /\ expired' = "no"
            /\ UNCHANGED <<pc, resp, outcome>>
       ELSE IF result.ok
       THEN /\ pc' = "received"
            /\ resp' = result.val
            /\ expired' = "no"
            /\ UNCHANGED outcome
       ELSE /\ Returned(Err(FromMiddlewareError(result.err)))
            /\ expired' = IF result.err = "timeout" THEN "send" ELSE "no"
            /\ UNCHANGED resp
    /\ UNCHANGED <<client, op, params, req, prev, peer, caller, fnVars>>

\* send_and_log on a 4xx/5xx response: the body is read as an error envelope
\* and the call returns a ServiceError
ServiceFailure ==
    /\ pc = "received"
    /\ IsErrorStatus(resp.status)
    /\ Returned(Err(ServiceErrorOf(resp)))
    /\ expired' = IF resp.body.kind = "timeout" THEN "body" ELSE "no"
    /\ UNCHANGED <<client, op, attempts, answered, resp, params, req, prev, peer,
                   caller, fnVars>>

\* send_and_log returns the response and the operation decodes its body:
\* Ok(res.json::<T>().await?)
Decode ==
    /\ pc = "received"
    /\ ~IsErrorStatus(resp.status)
    /\ LET decoded == JsonAs(ResponseType(op), resp.body)
       IN  IF decoded.ok
           THEN Returned(Ok(ReturnValue(op, params, decoded.val)))
           ELSE Returned(Err(FromReqwestError(decoded.err)))
    /\ expired' = IF resp.body.kind = "timeout" THEN "body" ELSE "no"
    /\ UNCHANGED <<client, op, attempts, answered, resp, params, req, prev, peer,
                   caller, fnVars>>

\* the caller has the result; the client is ready for the next call
Finish ==
    /\ pc = "done"
    /\ pc' = "idle"
    /\ op' = "none"
    /\ attempts' = 0
    /\ answered' = 0
    /\ expired' = "no"
    /\ resp' = None
    /\ outcome' = None
    /\ params' = None
    /\ req' = None
    /\ UNCHANGED <<client, prev, peer, caller, fnVars>>

Next ==
    \/ \E o \in Ops : Call(o)
    \/ \E result \in AttemptResults : Attempt(result)
    \/ ServiceFailure
    \/ Decode
    \/ Finish

\* the operation calls on a constructed client
Spec == Init /\ [][Next]_vars

\* the steps of a call that has been entered.  Every attempt ends: the request
\* carries the configured timeout (prepare_request), and the middleware's
\* backoff between two attempts is a finite sleep; reading a body ends for the
\* same reason.
SomeAttempt == \E result \in AttemptResults : Attempt(result)

FairSpec ==
    /\ Spec
    /\ WF_vars(SomeAttempt)
    /\ WF_vars(ServiceFailure)
    /\ WF_vars(Decode)

(***************************************************************************)
(* Calls on one shared client.  The operations take &self, so a caller may *)
(* call again after a call has returned, and a second call may be in       *)
(* flight while the first one waits at an await point; the two calls share *)
(* the client and nothing else.                                            *)
(***************************************************************************)
SharedOps == {"create_database", "list_database"}

SharedResults ==
    { Ok([status |-> 200, request_id |-> NoHeader,
          body |-> [kind |-> "json", code |-> 0, msg |-> "Success",
                    payload |-> TRUE, names |-> <<>>]]),
      Ok([status |-> 400, request_id |-> Header(<<114, 49>>),
          body |-> [kind |-> "json", code |-> 51,
                    msg |-> "Database Already Exists", payload |-> FALSE,
                    names |-> <<>>]]),
      Err("connect") }

\* the caller takes the result, notes how the call ended, and may call again
Again ==
    /\ pc = "done"
    /\ prev' = IF outcome.ok THEN "ok" ELSE "err"
    /\ pc' = IdleCall.pc
    /\ op' = IdleCall.op
    /\ attempts' = IdleCall.attempts
    /\ answered' = IdleCall.answered
    /\ expired' = IdleCall.expired
    /\ resp' = IdleCall.resp
    /\ outcome' = IdleCall.outcome
    /\ params' = IdleCall.params
    /\ req' = IdleCall.req
    /\ UNCHANGED <<client, peer, caller, fnVars>>

\* the executor lets the other call run: the running call is suspended as it
\* stands and the suspended one resumes
Switch ==
    /\ peer # Running
    /\ peer' = Running
    /\ pc' = peer.pc
    /\ op' = peer.op
    /\ attempts' = peer.attempts
    /\ answered' = peer.answered
    /\ expired' = peer.expired
    /\ resp' = peer.resp
    /\ outcome' = peer.outcome
    /\ params' = peer.params
    /\ req' = peer.req
    /\ UNCHANGED <<client, prev, caller, fnVars>>

SharedInit ==
    /\ Init
    /\ client.configuration.max_retries = 1

SharedNext ==
    \/ \E o \in SharedOps : Call(o)
    \/ \E result \in SharedResults : Attempt(result)
    \/ ServiceFailure
    \/ Decode
    \/ Again
    \/ Switch

SpecShared == SharedInit /\ [][SharedNext]_vars

(***************************************************************************)
(* The caller's loop over the pages of a select (examples/row.rs, the test *)
(* of row.rs): it calls select_rows, stops when the response is not        *)
(* truncated, and otherwise puts the response's next_marker into the args  *)
(* and calls again; an error ends it (the `?`).  The service returns at    *)
(* most MaxPages truncated pages.                                          *)
(***************************************************************************)
PageMarkers == { JNull, JStr(<<"m">>), JObj(<< <<"id", JNum(1)>> >>) }

\* the args the loop starts with: no marker, or one kept from an earlier run
LoopArgs ==
    { SelectRowsArgsBuild(
          [database |-> Set(<<"a">>), table |-> Set(<<"a">>), filter |-> Unset,
           marker |-> m, limit |-> Set(1), projections |-> Unset,
           read_consistency |-> Unset]).val :
        m \in {Unset, Set(JStr(<<"m">>))} }

Pages ==
    [is_truncated : {Set(TRUE), Set(FALSE)},
     next_marker : {Unset} \cup { Set(m) : m \in PageMarkers }]

PageBodies ==
    { [kind |-> "json", code |-> 0, msg |-> "Success", payload |-> TRUE,
       names |-> <<>>, page |-> pg] : pg \in Pages }
    \cup { [kind |-> "json", code |-> 0, msg |-> "Success", payload |-> FALSE,
            names |-> <<>>] }

PageResults ==
    { Ok([status |-> 200, request_id |-> NoHeader, body |-> b]) : b \in PageBodies }
    \cup { Ok([status |-> 404, request_id |-> NoHeader,
               body |-> [kind |-> "json", code |-> 60, msg |-> "Table Not Exist",
                         payload |-> FALSE, names |-> <<>>]]),
           Err("connect") }

\* the response says that more rows follow
Truncated(result) ==
    /\ result.ok
    /\ result.val.status = 200
    /\ result.val.body.payload
    /\ result.val.body.page.is_truncated.v

\* let ret = client.select_rows(&args)
SelectPage ==
    /\ caller.state = "loop"
    /\ CallWith("select_rows", caller.args)
    /\ UNCHANGED caller

\* the service answers an attempt: with a truncated page only while it has
\* pages left
PageAttempt ==
    \E result \in PageResults :
        /\ Truncated(result) => caller.left > 0
        /\ Attempt(result)

\* .await?; if !ret.is_truncated { break } else { args.marker = Some(ret.next_marker) }
TakePage ==
    /\ pc = "done"
    /\ caller.state = "loop"
    /\ caller' =
          IF ~outcome.ok THEN [caller EXCEPT !.state = "failed"]
          ELSE IF ~outcome.val.is_truncated
          THEN [caller EXCEPT !.state = "stopped", !.last = Set(resp.body.page)]
          ELSE [caller EXCEPT !.args.marker = Set(outcome.val.next_marker),
                              !.last = Set(resp.body.page),
                              !.left = @ - 1]
    /\ pc' = IdleCall.pc
    /\ op' = IdleCall.op
    /\ attempts' = IdleCall.attempts
    /\ answered' = IdleCall.answered
    /\ expired' = IdleCall.expired
    /\ resp' = IdleCall.resp
    /\ outcome' = IdleCall.outcome
    /\ params' = IdleCall.params
    /\ req' = IdleCall.req
    /\ UNCHANGED <<client, prev, peer, fnVars>>

PagingInit ==
    /\ FnInit
    /\ client \in { NewWithConfiguration(c).val : c \in CallConfigurations }
    /\ pc = IdleCall.pc
    /\ op = IdleCall.op
    /\ attempts = IdleCall.attempts
    /\ answered = IdleCall.answered
    /\ expired = IdleCall.expired
    /\ resp = IdleCall.resp
    /\ outcome = IdleCall.outcome
    /\ params = IdleCall.params
    /\ req = IdleCall.req
    /\ prev = "none"
    /\ peer = IdleCall
    /\ caller \in [state : {"loop"}, args : LoopArgs, last : {Unset},
                    left : 0..MaxPages]

PagingNext ==
    \/ SelectPage
    \/ PageAttempt
    \/ ServiceFailure
    \/ Decode
    \/ TakePage

SpecPaging == PagingInit /\ [][PagingNext]_vars

\* the loop keeps running, every await of it returns
FairPaging ==
    /\ SpecPaging
    /\ WF_vars(SelectPage)
    /\ WF_vars(PageAttempt)
    /\ WF_vars(ServiceFailure)
    /\ WF_vars(Decode)
    /\ WF_vars(TakePage)

(***************************************************************************)
(* insert_row called with batches of rows.                                 *)
(***************************************************************************)
InsertResults ==
    { Ok([status |-> 200, request_id |-> NoHeader,
          body |-> [kind |-> "json", code |-> 0, msg |-> "Success",
                    payload |-> pl, names |-> <<>>]]) : pl \in BOOLEAN }
    \cup { Ok([status |-> 400, request_id |-> NoHeader,
               body |-> [kind |-> "json", code |-> 2, msg |-> "Invalid Parameter",
                         payload |-> FALSE, names |-> <<>>]]),
           Err("connect") }

InsertNext ==
    \/ Call("insert_row")
    \/ \E result \in InsertResults : Attempt(result)
    \/ ServiceFailure
    \/ Decode
    \/ Finish

SpecInsert == Init /\ [][InsertNext]_vars

(***************************************************************************)
(* Every operation of the client, called once with args of its own.        *)
(***************************************************************************)
Operations ==
    {"create_database", "drop_database", "list_database", "hash_database",
     "create_table", "drop_table", "list_table", "has_table", "desc_table",
     "add_field", "show_table_stats", "alias_table", "unalias_table",
     "create_index", "desc_index", "modify_index", "rebuild_index", "delete_index",
     "insert_row", "upsert_row", "update_row", "delete_rows", "query_row",
     "search_rows", "select_rows", "batch_search_rows"}

EveryResults ==
    { Ok([status |-> 200, request_id |-> NoHeader,
          body |-> [kind |-> "json", code |-> 0, msg |-> "Success",
                    payload |-> TRUE, names |-> << <<"a">> >>,
                    page |-> [is_truncated |-> Set(FALSE),
                              next_marker |-> Set(JNull)]]]),
      Ok([status |-> 400, request_id |-> NoHeader,
          body |-> [kind |-> "json", code |-> 2, msg |-> "Invalid Parameter",
                    payload |-> FALSE, names |-> <<>>]]),
      Err("connect") }

EveryNext ==
    \/ \E o \in Operations : Call(o)
    \/ \E result \in EveryResults : Attempt(result)
    \/ ServiceFailure
    \/ Decode
    \/ Finish

SpecEvery == Init /\ [][EveryNext]_vars

(***************************************************************************)
(* Operations on clients configured with and without a user agent.         *)
(***************************************************************************)
AgentConfigurations ==
    [account : {<<"a">>, <<"&">>}, api_key : {<<"a">>}, endpoint : {<<"h">>},
     version : {Version}, time_out_seconds : {DefaultTimeOutSeconds},
     max_retries : {0, 1},
     user_agent : SeqsUpTo({"u", "\n"}, MaxLen)]

AgentsInit ==
    /\ FnInit
    /\ client \in { NewWithConfiguration(c).val : c \in AgentConfigurations }
    /\ Idle

AgentsNext ==
    \/ \E o \in Ops : Call(o)
    \/ \E result \in AttemptResults : Attempt(result)
    \/ ServiceFailure
    \/ Decode
    \/ Finish

SpecAgents == AgentsInit /\ [][AgentsNext]_vars

(***************************************************************************)
(* The existence checks, answered by list responses.                       *)
(***************************************************************************)
ExistsOps == {"hash_database", "has_table"}

NameLists == { <<>>, << <<"A">> >>, << <<"b">>, <<"a">> >> }

ExistsBodies ==
    { [kind |-> "json", code |-> 0, msg |-> "Success", payload |-> TRUE,
       names |-> l] : l \in NameLists }
    \cup { [kind |-> "json", code |-> 0, msg |-> "Success", payload |-> FALSE,
            names |-> <<>>],
           [kind |-> "json", code |-> 50, msg |-> "Database Not Exist",
            payload |-> FALSE, names |-> <<>>],
           [kind |-> "invalid"] }

ExistsResults ==
    { Ok([status |-> st, request_id |-> NoHeader, body |-> b]) :
        st \in {200, 404, 503}, b \in ExistsBodies }
    \cup { Err("connect") }

ExistsNext ==
    \/ \E o \in ExistsOps : Call(o)
    \/ \E result \in ExistsResults : Attempt(result)
    \/ ServiceFailure
    \/ Decode
    \/ Finish

SpecExists == Init /\ [][ExistsNext]_vars

(***************************************************************************)
(* Properties.                                                             *)
(***************************************************************************)
\* a call has returned after the middleware handed a response to send_and_log
Answered == pc = "done" /\ resp # None

IsServiceError(result) == ~result.ok /\ result.err.kind = "ServiceError"
IsOtherError(result) == ~result.ok /\ result.err.kind = "OtherError"
IsTransportError(result) ==
    ~result.ok /\ result.err.kind \in {"RequestError", "RequestMiddlewareError"}

\* the codes of the documented error table
TableCodes ==
    {1, 2} \cup 10..13 \cup 20..25 \cup 50..53 \cup 60..74 \cup 80..82
    \cup 90..94 \cup {100, 101}

\* sym is the symbol the table gives code: the variant whose number is code,
\* UNKNOWN for a code outside the table
SymbolFor(code, sym) ==
    IF code \in TableCodes
    THEN sym \in DOMAIN ServerErrorCode /\ sym # "UNKNOWN" /\ ServerErrorCode[sym] = code
    ELSE sym = "UNKNOWN"

\* the ServiceError of a 4xx/5xx response with a decodable envelope, but for
\* its request id
EnvelopeSurfaced ==
    /\ IsServiceError(outcome)
    /\ outcome.err.status_code = resp.status
    /\ outcome.err.resp.code = resp.body.code
    /\ outcome.err.resp.msg = resp.body.msg
    /\ SymbolFor(resp.body.code, outcome.err.server_code)
    /\ (resp.status = 400 /\ resp.body.code = 51
            => outcome.err.server_code = "DB_ALREADY_EXIST")

ErrorEnvelopeAnswered ==
    /\ Answered
    /\ resp.status >= 400 /\ resp.status <= 599
    /\ resp.body.kind = "json"

\* C1 as stated: a 4xx/5xx response with a decodable envelope gives a
\* ServiceError with the HTTP status, the envelope's code and msg, the symbol
\* looked up for the code, and the Request-ID header's value as request id,
\* the empty string when the header is absent.
C1_AsClaimed ==
    ErrorEnvelopeAnswered =>
        /\ EnvelopeSurfaced
        /\ outcome.err.request_id =
              IF resp.request_id.present THEN resp.request_id.bytes ELSE <<>>

\* C1 amended: the same, the request id being the Request-ID header's value
\* when the header is present and its value is visible ASCII text, and the
\* empty string when the header is absent or its value is not such text.
C1_ServiceErrorOfEnvelope ==
    ErrorEnvelopeAnswered =>
        /\ EnvelopeSurfaced
        /\ outcome.err.request_id =
              IF /\ resp.request_id.present
                 /\ \A i \in 1..Len(resp.request_id.bytes) :
                        \/ resp.request_id.bytes[i] \in 32..126
                        \/ resp.request_id.bytes[i] = 9
              THEN resp.request_id.bytes ELSE <<>>

C1_Witness ==
    /\ ErrorEnvelopeAnswered
    /\ resp.status = 400 /\ resp.body.code = 51
    /\ resp.request_id = Header(<<195, 169>>)
    /\ IsServiceError(outcome)
    /\ outcome.err.server_code = "DB_ALREADY_EXIST"
    /\ outcome.err.request_id = <<>>

\* C2 as stated: every local validation failure (an empty credential field, a
\* required builder field left unset) is reported as ParamsError, and no HTTP
\* request has been sent.
C2_ValidationIsParamsError ==
    (fn # "none" /\ fn # "ServerErrorCode::from" /\ ~ret.ok) =>
        /\ ret.err.kind = "ParamsError"
        /\ attempts = 0

\* C3 as stated: every answered call whose status is not 2xx (1xx and 3xx
\* included) returns a ServiceError carrying that status.
C3_AsClaimed ==
    (Answered /\ (resp.status < 200 \/ resp.status > 299)) =>
        /\ IsServiceError(outcome)
        /\ outcome.err.status_code = resp.status

\* C3 amended: every answered call whose status is 4xx or 5xx returns a
\* ServiceError carrying that status, never a success value or OtherError; a
\* status outside 400..599 (1xx and 3xx included) is handled like a success
\* status: the body is decoded, and the call returns the decoded value or
\* OtherError, never a ServiceError.
C3_ServiceErrorOn4xx5xx ==
    Answered =>
        IF resp.status >= 400 /\ resp.status <= 599
        THEN IsServiceError(outcome) /\ outcome.err.status_code = resp.status
        ELSE outcome.ok \/ IsOtherError(outcome)

C3_Witness ==
    /\ Answered
    /\ resp.status = 599
    /\ IsServiceError(outcome)
    /\ outcome.err.status_code = 599

\* C4: Credentials::new succeeds exactly when account and api_key are both
\* non-empty, fails with ParamsError otherwise, and on success the token is
\* the non-empty string "account=<account>&api_key=<api_key>", which the two
\* inputs determine.
C4_CredentialsNew ==
    fn = "Credentials::new" =>
        /\ ret.ok <=> (args[1] # <<>> /\ args[2] # <<>>)
        /\ ~ret.ok => ret.err.kind = "ParamsError"
        /\ ret.ok =>
            /\ ret.val.token # <<>>
            /\ ret.val.token =
                  <<"a", "c", "c", "o", "u", "n", "t", "=">> \o args[1]
                  \o <<"&", "a", "p", "i", "_", "k", "e", "y", "=">> \o args[2]

C4_Witness ==
    /\ fn = "Credentials::new"
    /\ args = << <<"a">>, <<"&">> >>
    /\ ret.ok
    /\ Len(ret.val.token) = 19

\* begins with "http://" or "https://"
HasScheme(e) ==
    \/ Len(e) >= 7 /\ SubSeq(e, 1, 7) = <<"h", "t", "t", "p", ":", "/", "/">>
    \/ Len(e) >= 8 /\ SubSeq(e, 1, 8) = <<"h", "t", "t", "p", "s", ":", "/", "/">>

\* the endpoint string a client was constructed from
GivenEndpoint == IF fn = "MochowClient::new" THEN args[3] ELSE args.endpoint

\* C5: the endpoint of a constructed client is the given endpoint when that
\* begins with "http://" or "https://" and "http://" followed by it
\* otherwise; it always begins with one of the two schemes; and a client
\* constructed again from a constructed client's configuration has the same
\* endpoint.
C5_EndpointNormalised ==
    /\ (fn \in {"MochowClient::new", "MochowClient::new_with_configuration",
                "MochowClient::new_with_configuration again"} /\ ret.ok) =>
          /\ HasScheme(ret.val.configuration.endpoint)
          /\ ret.val.configuration.endpoint =
                IF HasScheme(GivenEndpoint) THEN GivenEndpoint
                ELSE <<"h", "t", "t", "p", ":", "/", "/">> \o GivenEndpoint
    /\ fn = "MochowClient::new_with_configuration again" =>
          /\ ret.ok
          /\ ret.val.configuration.endpoint = args.endpoint

C5_Witness ==
    /\ fn = "MochowClient::new_with_configuration again"
    /\ ret.ok
    /\ ret.val.configuration.endpoint =
          <<"h", "t", "t", "p", ":", "/", "/", "h", "t", "t", "p", "s", ":">>

\* C6: the lookup maps each code of the table to the symbol whose number is
\* that code and every other integer, 0 and the negative ones included, to
\* UNKNOWN.
C6_Lookup ==
    fn = "ServerErrorCode::from" =>
        /\ SymbolFor(args, ret)
        /\ args <= 0 => ret = "UNKNOWN"

C6_Witness ==
    /\ fn = "ServerErrorCode::from"
    /\ args = 101
    /\ ret = "ROW_KEY_NOT_FOUND"

\* C7: a 4xx/5xx response whose body cannot be decoded as an error envelope
\* still gives a ServiceError: its status_code is the HTTP status, its
\* resp.code is -1, its resp.msg reports the decode failure, its symbol is
\* UNKNOWN.
C7_UndecodableErrorBody ==
    (Answered /\ resp.status >= 400 /\ resp.status <= 599
        /\ resp.body.kind # "json") =>
        /\ IsServiceError(outcome)
        /\ outcome.err.status_code = resp.status
        /\ outcome.err.resp.code = -1
        /\ outcome.err.resp.msg[1] = "Service json error message decode failed"
        /\ outcome.err.server_code = "UNKNOWN"

C7_Witness ==
    /\ Answered
    /\ resp.status = 500
    /\ resp.body.kind = "invalid"
    /\ IsServiceError(outcome)
    /\ outcome.err.resp.code = -1

\* the body has been read in full and is not JSON of the response type
NotOfResponseType ==
    \/ resp.body.kind = "invalid"
    \/ resp.body.kind = "json" /\ op = "desc_table" /\ ~resp.body.payload

\* C8: a success status with a body that is not valid JSON for the
\* operation's response type makes the call fail with OtherError, not return
\* a success value, a ServiceError or a transport error.
C8_UndecodableSuccessBody ==
    (Answered /\ resp.status >= 200 /\ resp.status <= 299 /\ NotOfResponseType) =>
        IsOtherError(outcome)

C8_Witness ==
    /\ Answered
    /\ resp.status = 200
    /\ op = "desc_table"
    /\ resp.body.kind = "json" /\ ~resp.body.payload
    /\ IsOtherError(outcome)

\* C9 as stated: a call that ends because the timeout expired, while sending,
\* awaiting the response or reading the body, fails with a transport error.
C9_TimeoutIsTransportError ==
    (pc = "done" /\ expired # "no") => IsTransportError(outcome)

RetriedStatus(status) ==
    (status >= 500 /\ status <= 599) \/ status = 408 \/ status = 429

\* C10 as stated: once a 4xx/5xx response has answered an attempt no further
\* attempt is sent, and a ServiceError is surfaced after exactly one attempt.
C10_AsClaimed ==
    /\ (answered >= 400 /\ answered <= 599) => pc # "send"
    /\ (pc = "done" /\ IsServiceError(outcome)) => attempts = 1

\* C10 amended: once a 4xx response other than 408 and 429 has answered an
\* attempt, no further attempt is sent, whatever the max retry count.  A 5xx,
\* 408 or 429 response is sent again as long as retries are left, so that its
\* ServiceError is surfaced after max_retries + 1 attempts.
C10_ClientErrorNotRetried ==
    /\ (answered >= 400 /\ answered <= 499 /\ ~RetriedStatus(answered)) =>
          pc # "send"
    /\ (pc = "send" /\ RetriedStatus(answered)) =>
          attempts <= client.configuration.max_retries
    /\ (Answered /\ RetriedStatus(resp.status)) =>
          /\ IsServiceError(outcome)
          /\ attempts = client.configuration.max_retries + 1

C10_Witness ==
    /\ Answered
    /\ client.configuration.max_retries = 2
    /\ resp.status = 400
    /\ attempts = 1
    /\ IsServiceError(outcome)

\* the call has returned right after an attempt that failed with a transient
\* transport failure (no response was handed to send_and_log)
EndedOnTransientFailure ==
    /\ pc = "done"
    /\ attempts > 0
    /\ resp = None
    /\ outcome.err.kind = "RequestMiddlewareError"
    /\ outcome.err.msg \in {"connect", "timeout"}

\* C11: a call makes at most max_retries + 1 attempts; a call that ends on a
\* transient transport failure, as one whose every attempt fails that way
\* does, has made exactly max_retries + 1 attempts (4 with max_retries 3) and
\* returns a transport error; and every call that has been entered
\* eventually returns, a success or an error.
C11_Terminates ==
    /\ [](attempts <= client.configuration.max_retries + 1)
    /\ [](pc = "send" => attempts <= client.configuration.max_retries)
    /\ [](EndedOnTransientFailure =>
            /\ attempts = client.configuration.max_retries + 1
            /\ client.configuration.max_retries = 3 => attempts = 4
            /\ IsTransportError(outcome))
    /\ [](pc = "done" => outcome # None)
    /\ (pc = "send" ~> pc = "done")

C11_Witness ==
    /\ EndedOnTransientFailure
    /\ client.configuration.max_retries = 3
    /\ attempts = 4
    /\ IsTransportError(outcome)

\* "http://h/v1/database?<action>", the URL of the two database operations
\* on a client constructed with endpoint "h"
DatabaseUrl(action) ==
    <<"h", "t", "t", "p", ":", "/", "/", "h", "/", "v", "1", "/",
      "database", "?", action>>

\* the request a client just constructed from account "a", api_key "a" and
\* endpoint "h" sends for operation o
FreshRequest(o) ==
    [method |-> "POST",
     url |-> DatabaseUrl(IF o = "create_database" THEN "create" ELSE "list"),
     headers |->
        (IF o = "create_database"
         THEN << <<"content-type", <<"application/json">> >> >> ELSE <<>>)
        \o << <<"authorization",
                <<"Bearer ", "a", "c", "c", "o", "u", "n", "t", "=", "a", "&",
                  "a", "p", "i", "_", "k", "e", "y", "=", "a">> >>,
              <<"user-agent", <<"mochow-sdk-rust">> >> >>,
     body |-> IF o = "create_database"
              THEN [set |-> TRUE,
                    v |-> [j |-> "obj",
                           obj |-> << <<"database", [j |-> "str", str |-> <<"a">>]>> >>]]
              ELSE [set |-> FALSE],
     timeout |-> [set |-> TRUE, v |-> 30]]

\* C12: no step of a call, failed ones included, changes the client: its
\* token and configuration stay as constructed.  A call entered after other
\* calls have returned sends the request a fresh client sends, and starts as
\* on a fresh client: no attempt made, the whole retry budget ahead.
C12_ClientUnchanged ==
    /\ [][client' = client]_vars
    /\ [](/\ client.credential.token =
                <<"a", "c", "c", "o", "u", "n", "t", "=", "a", "&",
                  "a", "p", "i", "_", "k", "e", "y", "=", "a">>
          /\ client.configuration.endpoint = <<"h", "t", "t", "p", ":", "/", "/", "h">>
          /\ client.configuration.max_retries = 1
          /\ client.configuration.time_out_seconds = 30)
    /\ [](pc = "send" => req = FreshRequest(op))
    /\ []((pc = "send" /\ attempts = 0) =>
            answered = 0 /\ expired = "no" /\ resp = None /\ outcome = None)
    /\ [](attempts <= 2)

C12_Witness ==
    /\ prev = "err"
    /\ pc = "done"
    /\ op = "create_database"
    /\ req = FreshRequest("create_database")
    /\ attempts = 2
    /\ outcome.ok

\* the outcome of call c follows from its own operation and the response it
\* got itself
OwnOutcome(c) ==
    IF c.resp = None
    THEN c.attempts > 0 =>
            /\ c.attempts = 2
            /\ IsTransportError(c.outcome)
    ELSE IF c.resp.status = 400
    THEN /\ IsServiceError(c.outcome)
         /\ c.outcome.err.status_code = 400
         /\ c.outcome.err.resp.code = c.resp.body.code
         /\ c.outcome.err.request_id = c.resp.request_id.bytes
    ELSE /\ c.outcome.ok
         /\ c.outcome.val.code = c.resp.body.code
         /\ c.outcome.val.type =
               (IF c.op = "create_database" THEN "CommonResponse"
                ELSE "ListDatabaseResponse")

\* C13: however two calls on one client interleave, no step changes the
\* client, the request of each call is the one built from the client's
\* credentials and configuration as constructed, and the outcome of each
\* call follows from its own operation and its own response.
C13_CallsIndependent ==
    /\ [][client' = client]_vars
    /\ [](\A c \in {Running, peer} :
            /\ c.pc \in {"send", "received"} => c.req = FreshRequest(c.op)
            /\ c.pc = "done" => OwnOutcome(c))

C13_Witness ==
    /\ pc = "done"
    /\ op = "create_database"
    /\ IsServiceError(outcome)
    /\ peer.pc = "received"
    /\ peer.op = "list_database"
    /\ peer.resp.status = 200
    /\ peer.attempts = 2

\* the list request of an existence check: POST <endpoint>/v1/database?list
\* without a body, or POST <endpoint>/v1/table?list for the given database
IsListRequest ==
    /\ req.method = "POST"
    /\ req.url = <<"h", "t", "t", "p", ":", "/", "/", "h", "/", "v", "1", "/",
                   IF op = "hash_database" THEN "database" ELSE "table",
                   "?", "list">>
    /\ IF op = "hash_database"
       THEN req.body = [set |-> FALSE]
       ELSE req.body =
              [set |-> TRUE,
               v |-> [j |-> "obj",
                      obj |-> << <<"database",
                                   [j |-> "str", str |-> params.data_base]>> >>]]

\* the name an existence check looks for
Sought == IF op = "hash_database" THEN params.data_base ELSE params.table

\* C14: an existence check builds one request, the list request, and every
\* attempt of the call carries it; on a decoded list response it returns
\* whether the name is among the listed names (none when the list is
\* absent); and when the listing fails it returns the listing's error: the
\* ServiceError of a 4xx/5xx response, the transport error, or OtherError
\* for an undecodable body.
C14_ExistenceByListing ==
    /\ [](pc \in {"send", "received", "done"} => IsListRequest)
    /\ [][pc = "send" /\ pc' # "idle" => req' = req]_vars
    /\ [](Answered =>
            IF resp.status >= 400 /\ resp.status <= 599
            THEN /\ IsServiceError(outcome)
                 /\ outcome.err.status_code = resp.status
            ELSE IF resp.body.kind # "json" THEN IsOtherError(outcome)
            ELSE /\ outcome.ok
                 /\ outcome.val =
                       (/\ resp.body.payload
                        /\ \E i \in 1..Len(resp.body.names) :
                              resp.body.names[i] = Sought))
    /\ []((pc = "done" /\ resp = None) => IsTransportError(outcome))

C14_Witness ==
    /\ Answered
    /\ op = "has_table"
    /\ resp.body.kind = "json"
    /\ resp.body.names = << <<"b">>, <<"a">> >>
    /\ outcome = Ok(TRUE)

\* the values of the members named "marker" in the body of the request
MarkersSent ==
    LET members == req.body.v.obj
    IN  [i \in { k \in 1..Len(members) : members[k][1] = "marker" } |-> members[i][2]]

\* C15: the body of a select-rows request has one `marker` member, equal to
\* the marker of the args, when the args have a marker, which after a
\* truncated response is that response's nextMarker; it has no `marker`
\* member when the args have none.
C15_MarkerPassedThrough ==
    (op = "select_rows" /\ pc \in {"send", "received", "done"}) =>
        /\ IF params.marker.set
           THEN /\ Cardinality(DOMAIN MarkersSent) = 1
                /\ \A i \in DOMAIN MarkersSent : MarkersSent[i] = params.marker.v
           ELSE DOMAIN MarkersSent = {}
        /\ caller.last.set =>
              /\ params.marker.set
              /\ params.marker.v = caller.last.v.next_marker.v

C15_Witness ==
    /\ op = "select_rows"
    /\ pc = "send"
    /\ caller.last.set
    /\ caller.last.v.next_marker.v = [j |-> "obj", obj |-> << <<"id", [j |-> "num", num |-> 1]>> >>]
    /\ \E i \in DOMAIN MarkersSent :
          MarkersSent[i] = [j |-> "obj", obj |-> << <<"id", [j |-> "num", num |-> 1]>> >>]

\* C16: a select_rows call keeps to the one request it built and, once
\* answered, sends nothing more by itself.  In the loop one call is in
\* flight at a time, each request after the first carries the nextMarker of
\* the response just before it, every response before the current request
\* was truncated, and a stopped loop has seen a response that is not
\* truncated and sends nothing more.  The loop ends, the service returning
\* no more than MaxPages truncated pages.
C16_PagingLoop ==
    /\ [][pc = "send" /\ pc' # "idle" => req' = req]_vars
    /\ [][(pc = "received" \/ pc = "done") => pc' # "send"]_vars
    /\ [](peer.pc = "idle")
    /\ []((pc = "send" /\ caller.last.set) =>
            /\ caller.last.v.is_truncated.v
            /\ \A i \in DOMAIN MarkersSent :
                  MarkersSent[i] = caller.last.v.next_marker.v)
    /\ [](caller.state = "stopped" =>
            /\ caller.last.set
            /\ ~caller.last.v.is_truncated.v
            /\ pc = "idle")
    /\ [](caller.state = "failed" => pc = "idle")
    /\ <>(caller.state # "loop")

C16_Witness ==
    /\ caller.state = "stopped"
    /\ caller.left = 0
    /\ caller.args.marker = [set |-> TRUE, v |-> [j |-> "null"]]
    /\ ~caller.last.v.is_truncated.v

\* the values of the members named "rows" in the body of the request
RowsSent ==
    LET members == req.body.v.obj
    IN  [i \in { k \in 1..Len(members) : members[k][1] = "rows" } |-> members[i][2]]

\* C17: whatever the size of the batch, beyond 1000 rows included,
\* insert_row fails before sending for no batch; its one request is POST
\* <endpoint>/v1/row?insert with one `rows` member, the array of the given
\* rows in the given order; and it returns what the service answers: the
\* decoded response, or the ServiceError of a 4xx/5xx response.
C17_BatchPassedThrough ==
    (op = "insert_row" /\ pc # "idle") =>
        /\ req # None
        /\ req.method = "POST"
        /\ req.url = <<"h", "t", "t", "p", ":", "/", "/", "h", "/", "v", "1", "/",
                       "row", "?", "insert">>
        /\ Cardinality(DOMAIN RowsSent) = 1
        /\ \A i \in DOMAIN RowsSent :
              /\ RowsSent[i].j = "arr"
              /\ Len(RowsSent[i].arr) = Len(params.rows)
              /\ \A k \in 1..Len(params.rows) : RowsSent[i].arr[k] = params.rows[k]
        /\ (pc = "done" /\ resp = None) => (attempts > 0 /\ IsTransportError(outcome))
        /\ Answered =>
              IF resp.status = 400
              THEN /\ IsServiceError(outcome)
                   /\ outcome.err.status_code = 400
                   /\ outcome.err.resp.code = resp.body.code
              ELSE IF resp.body.payload
              THEN outcome.ok /\ outcome.val.code = resp.body.code
              ELSE IsOtherError(outcome)

C17_Witness ==
    /\ op = "insert_row"
    /\ Answered
    /\ Len(params.rows) = 1001
    /\ params.rows[1] = [j |-> "obj", obj |-> << <<"id", [j |-> "num", num |-> 1001]>> >>]
    /\ \E i \in DOMAIN RowsSent :
          /\ Len(RowsSent[i].arr) = 1001
          /\ RowsSent[i].arr[1] = params.rows[1]
    /\ outcome.ok

\* the keys of the fields of a variant of VectorIndexParams, in order
OwnKeys(variant) ==
    LET fields == Fields(VectorIndexParams[CHOOSE i \in DOMAIN VectorIndexParams :
                             VectorIndexParams[i].variant = variant].of)
    IN  [i \in DOMAIN fields |-> fields[i].key]

\* C18: every vector index parameter variant is written as a JSON object of
\* its own fields only, with no discriminator key, HNSW {m: 16,
\* ef_construction: 200} as exactly {"M":16,"efConstruction":200}, and
\* reading that object back gives the same variant with the same values: an
\* HNSWPQ object is never read as HNSW, nor an HNSW object as HNSWPQ.
C18_VariantRoundTrip ==
    fn = "VectorIndexParams" =>
        /\ ret.json.j = "obj"
        /\ Keys(ret.json) = OwnKeys(args.variant)
        /\ args = HNSW(16, 200) =>
               ret.json = JObj(<< <<"M", JNum(16)>>, <<"efConstruction", JNum(200)>> >>)
        /\ ret.back.ok
        /\ ret.back.val.variant = args.variant
        /\ ret.back.val = args

\* the fields of IndexSchema that only the server sets
ServerOnlyKeys == {"state", "indexMajorVersion"}

\* an IndexSchema without what only the server sets
WithoutServerOnly(index) ==
    [index EXCEPT !.state = Unset, !.index_major_version = Unset]

\* the indexes of a serialised TableSchema
IndexesWritten(json) ==
    IF Member(json, "indexes").set THEN Member(json, "indexes").v.arr ELSE <<>>

\* C19: a TableSchema written as JSON and read back has the same fields and
\* the same indexes in the same order, each equal field for field, except
\* for the server-only index fields, which the written form does not have.
C19_SchemaRoundTrip ==
    fn = "TableSchema" =>
        /\ \A i \in DOMAIN IndexesWritten(ret.json) :
               \A k \in ServerOnlyKeys : ~Member(IndexesWritten(ret.json)[i], k).set
        /\ ret.back.ok
        /\ ret.back.val.fields = args.fields
        /\ Len(ret.back.val.indexes) = Len(args.indexes)
        /\ \A i \in DOMAIN args.indexes :
               WithoutServerOnly(ret.back.val.indexes[i])
                   = WithoutServerOnly(args.indexes[i])

\* the drop and delete operations
DropOperations == {"drop_database", "drop_table", "delete_index", "delete_rows"}

\* the operations of a call in flight
InFlight == pc # "idle" /\ req # None

\* C20, as claimed: every drop or delete operation (drop_database,
\* drop_table, delete_index, delete_rows) is sent with DELETE and every other
\* operation with POST.
C20_AsClaimed ==
    InFlight => req.method = IF op \in DropOperations THEN "DELETE" ELSE "POST"

\* the part of the url from the first "?" on
Query(url) ==
    IF \E i \in DOMAIN url : url[i] = "?"
    THEN SubSeq(url, CHOOSE i \in DOMAIN url :
                         url[i] = "?" /\ \A k \in 1..(i - 1) : url[k] # "?",
                Len(url))
    ELSE <<>>

\* C20: drop_database, drop_table and delete_index are sent with DELETE to
\* the url of their resource without an action; every other operation is sent
\* with POST, delete_rows among them, which is POST to row?delete.
C20_Methods ==
    InFlight =>
        /\ req.method = IF op \in DropOperations \ {"delete_rows"}
                        THEN "DELETE" ELSE "POST"
        /\ req.method = "DELETE" <=> Query(req.url) = <<>>
        /\ op = "delete_rows" =>
               /\ req.url = Url(client.configuration, "row", "delete")
               /\ Query(req.url) = <<"?", "delete">>

C20_Witness ==
    /\ op = "delete_rows"
    /\ pc = "done"
    /\ outcome.ok
    /\ req.method = "POST"
    /\ req.body.set
    /\ Member(req.body.v, "filter") = Set(JStr(<<"f">>))

\* the args the call in flight built
ArgsSent == Try(BuildArgs(op, params)).val

RECURSIVE OmitsUnset(_, _, _)
\* json, written for value v of the given type, has no member for an optional
\* field of v that holds no value, at any depth
OmitsUnset(type, v, json) ==
    CASE type.k = "struct" ->
            /\ json.j = "obj"
            /\ \A i \in DOMAIN Fields(type.n) :
                  LET f == Fields(type.n)[i]
                      member == Member(json, f.key)
                  IN  IF f.opt
                      THEN IF v[f.name].set
                           THEN member.set =>
                                    OmitsUnset(f.type, v[f.name].v, member.v)
                           ELSE ~member.set
                      ELSE member.set => OmitsUnset(f.type, v[f.name], member.v)
      [] type.k = "vec" ->
            /\ json.j = "arr"
            /\ Len(json.arr) = Len(v)
            /\ \A i \in DOMAIN v : OmitsUnset(type.of, v[i], json.arr[i])
      [] type.k = "untagged" ->
            \A i \in DOMAIN Variants(type.n) :
                Variants(type.n)[i].variant = v.variant =>
                    OmitsUnset(Struct(Variants(type.n)[i].of), v.val, json)
      [] OTHER -> TRUE

\* C21: in the JSON body of every request an optional field that holds no
\* value is left out: the body has no key, null or other, for an unset
\* optional field of the args or of a struct nested in them.
C21_UnsetOmitted ==
    (InFlight /\ req.body.set) =>
        OmitsUnset(Struct(ArgsType(op)), ArgsSent, req.body.v)

C21_Witness ==
    /\ op = "search_rows"
    /\ pc = "done"
    /\ ~params.anns.filter.set
    /\ params.anns.params.variant = "FLAT"
    /\ ~params.anns.params.val.distance_far.set
    /\ params.anns.params.val.distance_near.set
    /\ Keys(req.body.v) = <<"database", "table", "anns">>
    /\ Keys(Member(req.body.v, "anns").v) = <<"vectorField", "vectorFloats", "params">>
    /\ Keys(Member(Member(req.body.v, "anns").v, "params").v)
          = <<"limit", "distanceNear">>

HeaderValues(name) ==
    LET at == { i \in DOMAIN req.headers : req.headers[i][1] = name }
    IN  { <<i, req.headers[i][2]>> : i \in at }

\* C23: every request of a constructed client carries the bearer token made
\* of the client's account and api_key, and exactly one User-Agent header,
\* "mochow-sdk-rust" with no user agent configured and
\* "mochow-sdk-rust/<user_agent>" otherwise; and building the headers
\* succeeds for every configuration.
C23_Headers ==
    /\ pc # "panicked"
    /\ InFlight =>
          /\ \E i \in DOMAIN req.headers :
                HeaderValues("authorization") =
                    { <<i, <<"Bearer ", "a", "c", "c", "o", "u", "n", "t", "=">>
                           \o client.configuration.account
                           \o <<"&", "a", "p", "i", "_", "k", "e", "y", "=">>
                           \o client.configuration.api_key>> }
          /\ \E i \in DOMAIN req.headers :
                HeaderValues("user-agent") =
                    { <<i, IF client.configuration.user_agent = <<>>
                           THEN <<"mochow-sdk-rust">>
                           ELSE <<"mochow-sdk-rust", "/">>
                                \o client.configuration.user_agent>> }

\* the ways a finished call can have failed
FailedLocally == ~outcome.ok /\ attempts = 0
FailedInTransport == IsTransportError(outcome)
FailedAtService == IsServiceError(outcome)
FailedReadingBody == IsOtherError(outcome) /\ attempts > 0

\* the stage each failure belongs to
StagesOrdered ==
    /\ FailedLocally => req = None /\ resp = None
    /\ FailedInTransport => attempts > 0 /\ req # None /\ resp = None
    /\ FailedAtService => resp # None /\ IsErrorStatus(resp.status)

\* C24 as stated: a finished call is a success, a local validation failure,
\* a transport failure or a service failure and nothing else, the failures
\* being tied to their stages (before a request, before a response, after an
\* error-status response).
C24_AsClaimed ==
    pc = "done" =>
        /\ outcome.ok \/ FailedLocally \/ FailedInTransport \/ FailedAtService
        /\ StagesOrdered

\* C24 as the code has it: a call on a client whose user agent is no header
\* value panics before anything is sent; every other finished call is exactly
\* one of a success, a local failure, a transport failure, a service failure
\* or a failure to read or decode the body of a response without an error
\* status, each tied to its stage.
C24_Outcomes ==
    /\ pc = "panicked" =>
          /\ GetRequestHeadersPanics(client.configuration)
          /\ attempts = 0 /\ req = None /\ resp = None
    /\ pc = "done" =>
          /\ Cardinality({ i \in 1..5 :
                 <<outcome.ok, FailedLocally, FailedInTransport, FailedAtService,
                   FailedReadingBody>>[i] }) = 1
          /\ StagesOrdered
          /\ outcome.ok => resp # None /\ ~IsErrorStatus(resp.status)
          /\ FailedReadingBody => resp # None /\ ~IsErrorStatus(resp.status)

C24_Witness ==
    /\ pc = "done"
    /\ FailedReadingBody
    /\ resp.status = 200
    /\ resp.body.kind = "invalid"

\* the indexes in the body of a create_index or modify_index request
IndexesSent ==
    IF op = "create_index" THEN IndexesWritten(req.body.v)
    ELSE << Member(req.body.v, "index").v >>

\* C25: no index of a create_index or modify_index request carries the
\* fields only the server sets (state, indexMajorVersion), also when the
\* IndexSchema sent was read from a response in which both were set.
C25_ServerFieldsNotSent ==
    (InFlight /\ op \in {"create_index", "modify_index"}) =>
        \A i \in DOMAIN IndexesSent :
            \A k \in ServerOnlyKeys : ~Member(IndexesSent[i], k).set

\* the half of C25 that the code keeps: the index state is never sent
C25_StateNotSent ==
    (InFlight /\ op \in {"create_index", "modify_index"}) =>
        \A i \in DOMAIN IndexesSent : ~Member(IndexesSent[i], "state").set

\* the field names of a serialised struct
KeySet(json) == { Keys(json)[i] : i \in DOMAIN Keys(json) }

\* the values of a family of parameter variants
Family(n) == IF n = "VectorIndexParams" THEN IndexParams ELSE SearchParams

\* C26: among the vector index parameters (HNSW, HNSWPQ, PUCK) and among
\* the vector search parameters (FLAT, HNSW, HNSWPQ, PUCK), whatever the
\* values and whichever optional fields are set, the field names one variant
\* is written with are never the field names a value of another variant of
\* the family is written with.
C26_VariantsTellApart ==
    fn \in {"VectorIndexParams", "VectorSearchParams"} =>
        \A w \in Family(fn) :
            w.variant # args.variant =>
                KeySet(Serialize(Untagged(fn), w)) # KeySet(ret.json)

C26_Witness ==
    /\ fn = "VectorSearchParams"
    /\ args.variant = "HNSW"
    /\ ~args.val.distance_far.set
    /\ ~args.val.distance_near.set
    /\ KeySet(ret.json) = {"ef", "limit", "pruning"}
    /\ \E w \in SearchParams :
          /\ w.variant = "HNSWPQ"
          /\ KeySet(Serialize(Untagged(fn), w)) = {"ef", "limit"}

\* C27: when the response has a success status and its body decodes into the
\* operation's response type, the operation returns that response as a
\* success, its code and msg those of the body, whatever the code is: a
\* nonzero code in a success-status body is never turned into a ServiceError.
C27_SuccessKeepsCode ==
    (Answered /\ resp.status >= 200 /\ resp.status <= 299
        /\ resp.body.kind = "json" /\ ~NotOfResponseType) =>
        /\ outcome.ok
        /\ outcome.val.type = ResponseType(op)
        /\ outcome.val.code = resp.body.code
        /\ outcome.val.msg = resp.body.msg

C27_Witness ==
    /\ Answered
    /\ resp.status = 200
    /\ resp.body.kind = "json"
    /\ resp.body.code = 51
    /\ outcome.ok
    /\ outcome.val.code = 51
    /\ outcome.val.msg = "Database Already Exists"

\* the request an operation sends for given parameters
RequestOf(o, p) == PrepareRequest(client, ArgsType(o), Try(BuildArgs(o, p)).val)

\* the part of a url after its last "/", up to the query
Segment(url) ==
    LET last == CHOOSE i \in DOMAIN url :
                    url[i] = "/" /\ \A k \in (i + 1)..Len(url) : url[k] # "/"
    IN  SubSeq(url, last + 1, Len(url) - Len(Query(url)))

\* the HTTP method, base path segment and action of a request
Triple(r) == <<r.method, Segment(r.url), Query(r.url)>>

Segments == {"database", "table", "index", "row"}

Actions ==
    {"create", "list", "desc", "addField", "stats", "alias", "unalias", "rebuild",
     "modify", "insert", "upsert", "update", "delete", "query", "search", "select",
     "batchSearch"}

\* <normalised endpoint>/v1/<segment>, then ?<action> if there is an action
UrlForm ==
    /\ HasScheme(client.configuration.endpoint)
    /\ \E segment \in Segments :
          /\ Segment(req.url) = <<segment>>
          /\ req.url = client.configuration.endpoint \o <<"/", "v", "1", "/", segment>>
                       \o Query(req.url)
    /\ \/ Query(req.url) = <<>>
       \/ \E action \in Actions : Query(req.url) = <<"?", action>>

\* the request of the call has been prepared and not been sent yet
Prepared == InFlight /\ pc = "send" /\ attempts = 0

\* C28 as stated: two different operations of the client never have the same
\* (method, segment, action), and every url is
\* <normalised endpoint>/v1/<segment>[?<action>].
C28_AsClaimed ==
    Prepared =>
        /\ \A o \in Operations \ {op} : \A p \in Params(o) :
               Triple(RequestOf(o, p)) # Triple(req)
        /\ UrlForm

\* the operation whose request an operation sends: the existence checks send
\* the list requests
Sends(o) ==
    CASE o = "hash_database" -> "list_database"
      [] o = "has_table" -> "list_table"
      [] OTHER -> o

\* C28 amended: hash_database sends the request of list_database and
\* has_table that of list_table; any two other different operations have
\* different (method, segment, action); and every url is
\* <normalised endpoint>/v1/<segment>[?<action>].
C28_Unambiguous ==
    Prepared =>
        /\ \A o \in Operations : \A p \in Params(o) :
               Triple(RequestOf(o, p)) = Triple(req) <=> Sends(o) = Sends(op)
        /\ UrlForm

C28_Witness ==
    /\ Prepared
    /\ op = "has_table"
    /\ Triple(req) = <<"POST", <<"table">>, <<"?", "list">> >>
    /\ \E p \in Params("list_table") : Triple(RequestOf("list_table", p)) = Triple(req)
    /\ \A p \in Params("desc_table") : Triple(RequestOf("desc_table", p)) # Triple(req)
    /\ req.url = <<"h", "t", "t", "p", ":", "/", "/", "h", "/", "v", "1", "/",
                   "table", "?", "list">>

\* C29: two different pairs of a non-empty account and a non-empty api key
\* never have the same token.
C29_TokenInjective ==
    (fn = "Credentials::new" /\ ret.ok) =>
        \A a \in Strings \cup Secrets, k \in Strings \cup Secrets :
            (CredentialsNew(a, k).ok /\ <<a, k>> # args) =>
                CredentialsNew(a, k).val.token # ret.val.token

\* the body create_table sends for built args
CreateTableBody == Serialize(Struct("CreateTableArgs"), ret.val)

C30_WithDescription ==
    (fn = "CreateTableArgsBuilder::build"
        /\ args.database.set /\ args.table.set /\ args.replication.set
        /\ args.description.set) =>
        /\ ret.ok
        /\ Member(CreateTableBody, "description") = Set(JStr(args.description.v))
        /\ ~args.enable_dynamic_field.set =>
               Member(CreateTableBody, "enableDynamicField") = Set(JBool(FALSE))

====
